---- MODULE Spec2Model ----
(***************************************************************************)
(* A model of the SWNMU game code: the global event dispatcher             *)
(* (world/events.py), the room lighting handler (world/lighting.py) and    *)
(* the airlock state machine (typeclasses/rooms.py), the skill and         *)
(* hacking systems (world/skills.py, world/systems.py) and the character   *)
(* generation wizard (world/chargen.py).                                   *)
(*                                                                         *)
(* The specifications share the variables:                                 *)
(*   SpecDispatch  one event at a time through GlobalEventHandler          *)
(*   SpecDay       the lighting handler of an outdoor room around the clock *)
(*   SpecLighting  the LightingHandler of one room under game time         *)
(*   SpecAirlock   an AirlockRoom with its delayed callbacks               *)
(*   SpecHack      skill checks, the hacking resolver, the hack command    *)
(*   SpecWizard    the character generation menu and the caller's sheet    *)
(*   SpecSpace     the space room's environmental effect                   *)
(*   SpecUtils     dice strings, ability modifiers, saving throws          *)
(*   SpecCmd       the lighting command on the lighting handler            *)
(*   SpecRunner    the end-to-end scenario runner                          *)
(* Each one leaves the other subsystems' variables at their initial value. *)
(***************************************************************************)
EXTENDS Integers, Sequences, FiniteSets, TLC

VARIABLES
    \* ---- event dispatch (world/events.py) ----
    hooks,            \* entity -> the set of hook phases it implements
    evSource,         \* source of the event being dispatched (None: no event)
    evTarget,         \* target of the event being dispatched
    evContext,        \* which EventContext object the event holds
    defaultCancelled, \* cancelled flag of the default-argument EventContext
    ownCancelled,     \* cancelled flag of an explicitly passed EventContext
    pc,               \* position inside handleEvent
    calls,            \* hook invocations of the current dispatch, in order
    echoes,           \* event.source.msg(event) calls of the current dispatch
    cancelledAt,      \* the pc at which a hook of this dispatch set cancelled
    startedCancelled, \* cancelled flag of the event's context when it was built
    \* ---- lighting (world/lighting.py) ----
    now,              \* gametime.gametime(), also the clock of delay()
    base_light_level, \* LightingHandler.base_light_level
    light_modifiers,  \* LightingHandler.light_modifiers: name -> data
    lighting_type,    \* LightingHandler.lighting_type
    db_lighting,      \* the room's persisted "lighting" attributes
    srcActive,        \* light source -> LightSourceBehavior.is_active
    srcAmount,        \* light source -> fuel_amount / battery_amount
    lastOp,           \* outcome of the last lighting operation
    \* ---- airlock (typeclasses/rooms.py) ----
    location,         \* thing -> the room containing it
    exitDest,         \* exit -> its destination room
    is_cycling,       \* AirlockRoom.db.is_cycling
    timers,           \* callbacks scheduled with delay(), in scheduling order
    nCalls,           \* cycle_airlock() calls made so far
    lastCall,         \* outcome of the last airlock operation
    \* ---- skills and hacking (world/skills.py, world/systems.py) ----
    skill_data,       \* the hacker's SkillHandler.skill_data: skill -> level
    stats,            \* the hacker's db attributes: ability -> value or None
    behavior_data,    \* the target's BehaviorHandler.behavior_data
    lastHack,         \* outcome of the last skill or hack operation
    \* ---- character generation (world/chargen.py) ----
    sheet,            \* caller.db.sheet: key -> value, for the keys set
    menuNode,         \* the node the open menu session shows (None: no session)
    menuKwargs,       \* the keyword context that node was entered with
    lastWiz,          \* the last wizard step: what was done, at which node
    \* ---- the space room (typeclasses/rooms.py SpaceRoom) ----
    occupants,        \* entity -> its hp, is_dead, has_life_support, inside
    nTicks,           \* runs of the environmental effect so far
    \* ---- utilities (world/utils.py) ----
    lastUtil,         \* the last utility call: its input and its result
    \* ---- the lighting command (commands/lighting_commands.py) ----
    nCmds,            \* lighting commands typed so far
    lastCmd,          \* the last lighting command: its words and its outcome
    \* ---- the scenario test runner (world/e2e_test_runner.py) ----
    test_objects,     \* E2ETestRunner.test_objects: the names it tracks
    alive,            \* the objects the runner created that still exist
    step_results,     \* E2ETestRunner.step_results: one record per step run
    lastRun,          \* the last run of the scenario: its result
    \* ---- night-vision items (world/lighting.py NightVisionBehavior) ----
    holder,           \* item -> the character carrying it
    equipment,        \* character with an equipment handler -> slot -> item
    nv_is_active,     \* item -> NightVisionBehavior.is_active
    night_vision_active,  \* character -> db.night_vision_active
    activated_by,     \* item -> who switched the active behavior on (None)
    lastUse           \* the last use of an item: who, what and the reply

dispatchVars == <<hooks, evSource, evTarget, evContext, defaultCancelled,
                  ownCancelled, pc, calls, echoes, cancelledAt, startedCancelled>>
lightVars == <<now, base_light_level, light_modifiers, lighting_type,
               db_lighting, srcActive, srcAmount, lastOp>>
airlockVars == <<location, exitDest, is_cycling, timers, nCalls, lastCall>>
hackVars == <<skill_data, stats, behavior_data, lastHack>>
wizardVars == <<sheet, menuNode, menuKwargs, lastWiz>>
spaceVars == <<occupants, nTicks>>
utilVars == <<lastUtil>>
cmdVars == <<nCmds, lastCmd>>
runnerVars == <<test_objects, alive, step_results, lastRun>>
visionVars == <<holder, equipment, nv_is_active, night_vision_active,
                activated_by, lastUse>>
otherVars == <<spaceVars, utilVars, cmdVars, runnerVars, visionVars>>
restVars == <<hackVars, wizardVars, otherVars>>
vars == <<dispatchVars, lightVars, airlockVars, restVars>>

None == "None"

(***************************************************************************)
(* Event dispatch: world/events.py                                         *)
(***************************************************************************)

\* The entities a dispatch can address: a character and a terminal standing
\* in a room; the room itself has no location.
Objs == {"char", "term", "room"}

LocationOf(e) == IF e = "room" THEN None ELSE "room"

\* Event.pre_event_func, event_handler_func, post_event_func
PhaseOrder == <<"at_pre_event", "handle_event", "at_post_event">>

Phases == {PhaseOrder[i] : i \in 1..3}

\* Within a phase handleEvent addresses event.source, event.source.location,
\* event.target, in this order.
RoleOrder == <<"source", "location", "target">>

\* The hook sets an entity may implement: all, none, only the handler, only
\* the pre and post hooks.
HookChoices == {Phases, {}, {"handle_event"}, {"at_pre_event", "at_post_event"}}

\* The nine getattr/call statements of handleEvent are numbered 0..8 in
\* program order; EchoPc is the closing event.source.msg(event), ReturnedPc
\* the state after handleEvent returned.
NumSlots == Len(PhaseOrder) * Len(RoleOrder)
FirstPc == 0
EchoPc == NumSlots
ReturnedPc == NumSlots + 1
Idle == FirstPc - 1

\* Mutant: the statements grouped by addressee instead of by phase.
PhaseAtByAddressee(i) == PhaseOrder[(i % 3) + 1]

PhaseAt(i) == PhaseOrder[(i \div 3) + 1]

RoleAt(i) == RoleOrder[(i % 3) + 1]

Addressee(role, src, tgt) ==
    CASE role = "source" -> src
      [] role = "location" -> LocationOf(src)
      [] role = "target" -> tgt

\* getattr(entity, hook_name, None): None for a missing entity or hook
HasHook(e, phase) == e # None /\ phase \in hooks[e]

\* event.context.cancelled
Cancelled == IF evContext = "default" THEN defaultCancelled ELSE ownCancelled

\* Event(event_type, source, target[, context]). The default argument
\* EventContext() of Event.__init__ is evaluated once, when the function is
\* defined: an event built without a context holds that one object, with
\* whatever its flag is by then. An explicit context is a new EventContext().
CreateEvent(src, tgt, explicit) ==
    /\ pc \in {Idle, ReturnedPc}
    /\ evSource' = src
    /\ evTarget' = tgt
    /\ evContext' = IF explicit THEN "own" ELSE "default"
    /\ ownCancelled' = IF explicit THEN FALSE ELSE ownCancelled
    /\ startedCancelled' = IF explicit THEN FALSE ELSE defaultCancelled
    /\ pc' = FirstPc
    /\ calls' = <<>>
    /\ echoes' = 0
    /\ cancelledAt' = Idle
    /\ UNCHANGED <<hooks, defaultCancelled>>

\* Mutant: a dispatcher that stops visiting hooks once the event is cancelled
\* and goes straight to the echo.
NextPcEarlyExit(i, isCancelled) == IF isCancelled THEN EchoPc ELSE i + 1

\* handleEvent never reads the context: the next statement follows.
NextPc(i, isCancelled) == i + 1

\* One "if hook := getattr(...): hook(event)" statement of handleEvent. A
\* hook that runs may set event.context.cancelled = True (as
\* HackableBehavior.handle_hack_event does).
HookStep(sets) ==
    /\ pc \in FirstPc..(NumSlots - 1)
    /\ LET e == Addressee(RoleAt(pc), evSource, evTarget)
           runs == HasHook(e, PhaseAt(pc))
           flag == Cancelled \/ (runs /\ sets)
       IN  /\ sets => runs
           /\ calls' = IF runs THEN Append(calls, <<PhaseAt(pc), RoleAt(pc), e>>)
                       ELSE calls
           /\ defaultCancelled' = IF evContext = "default" THEN flag
                                  ELSE defaultCancelled
           /\ ownCancelled' = IF evContext = "own" THEN flag ELSE ownCancelled
           /\ cancelledAt' = IF sets /\ cancelledAt = Idle THEN pc ELSE cancelledAt
           /\ pc' = NextPc(pc, flag)
    /\ UNCHANGED <<hooks, evSource, evTarget, evContext, echoes, startedCancelled>>

\* event.source.msg(event), then handleEvent returns
Echo ==
    /\ pc = EchoPc
    /\ echoes' = echoes + 1
    /\ pc' = ReturnedPc
    /\ UNCHANGED <<hooks, evSource, evTarget, evContext, defaultCancelled,
                   ownCancelled, calls, cancelledAt, startedCancelled>>

InitDispatch ==
    /\ hooks \in [Objs -> HookChoices]
    /\ evSource = None
    /\ evTarget = None
    /\ evContext = None
    /\ defaultCancelled = FALSE
    /\ ownCancelled = FALSE
    /\ pc = Idle
    /\ calls = <<>>
    /\ echoes = 0
    /\ cancelledAt = Idle
    /\ startedCancelled = FALSE

\* Every other specification starts with the dispatcher idle.
QuietDispatch ==
    /\ hooks = [e \in Objs |-> Phases]
    /\ evSource = None
    /\ evTarget = None
    /\ evContext = None
    /\ defaultCancelled = FALSE
    /\ ownCancelled = FALSE
    /\ pc = Idle
    /\ calls = <<>>
    /\ echoes = 0
    /\ cancelledAt = Idle
    /\ startedCancelled = FALSE

NextDispatch ==
    \/ \E src \in Objs, tgt \in Objs, explicit \in BOOLEAN :
          CreateEvent(src, tgt, explicit) /\ UNCHANGED <<lightVars, airlockVars, restVars>>
    \/ \E sets \in BOOLEAN : HookStep(sets) /\ UNCHANGED <<lightVars, airlockVars, restVars>>
    \/ Echo /\ UNCHANGED <<lightVars, airlockVars, restVars>>

(***************************************************************************)
(* Lighting: world/lighting.py                                             *)
(***************************************************************************)

\* ---- bounds of the lighting model ----
MaxChange == 12      \* largest |light_change| a modifier is given
MaxDuration == 1     \* longest modifier duration, in seconds
MaxSeconds == 2      \* game time is sampled at seconds 0..MaxSeconds ...

\* ... and at noon (second 0 lies in the night).
SampleHours == {12}

Times == (0..MaxSeconds) \cup {h * 3600 : h \in SampleHours}

LightingTypes == {"indoor", "outdoor", "space", "underground"}

ModNames == {"storm", "cycling_lights", "emergency_lighting"}

\* The names the lighting specification adds and removes.
UsedModNames == {"storm", "cycling_lights"}

\* light_change inputs: a storm or flare of any strength, and the -2 of the
\* airlock's cycling lights.
Changes(name) == IF name = "storm" THEN {0 - MaxChange, MaxChange} ELSE {0 - 2}

\* duration: None and 0 are both false in "if duration:"
Durations == (0 - 1)..MaxDuration

LevelInputs == {0 - 1, 11}

\* Light sources lying in the room: a torch burning fuel and a flashlight on
\* a battery (create_light_source_examples).
Sources == {"torch", "flashlight"}

fuel_type(s) == IF s = "torch" THEN "fuel" ELSE "battery"

light_intensity(s) == IF s = "torch" THEN 2 ELSE 3

\* What one consume_fuel call takes: all that a full source holds.
DrainAmounts(s) == IF s = "torch" THEN {30} ELSE {100}

\* fuel_amount=30, battery_amount=100 (create_light_source_examples)
FullAmount(s) == IF s = "torch" THEN 30 ELSE 100

Max(a, b) == IF a >= b THEN a ELSE b

Min(a, b) == IF a <= b THEN a ELSE b

RECURSIVE SumOver(_, _)
SumOver(f, S) ==
    IF S = {} THEN 0
    ELSE LET x == CHOOSE y \in S : TRUE IN f[x] + SumOver(f, S \ {x})

Restrict(f, S) == [x \in S |-> f[x]]

\* LightSourceBehavior.get_light_output: the value returned
light_output(s, active, amount) ==
    IF ~active THEN 0
    ELSE IF amount <= 0 THEN 0
    ELSE IF fuel_type(s) = "battery"
         THEN (light_intensity(s) * Max(30, amount)) \div 100
         ELSE light_intensity(s)

\* LightSourceBehavior.get_light_output: is_active afterwards (a depleted
\* source found active is switched off)
active_after_output(active, amount) == active /\ amount > 0

\* _calculate_light_sources
calculate_light_sources(act, amt) ==
    SumOver([s \in Sources |-> light_output(s, act[s], amt[s])], Sources)

\* Mutant: a modifier is dropped as soon as its expiry time is reached.
ExpiredAtDeadline(m, t) == "expires_at" \in DOMAIN m /\ t >= m.expires_at

\* "if 'expires_at' in modifier_data: if gametime.gametime() > expires_at"
Expired(m, t) == "expires_at" \in DOMAIN m /\ t > m.expires_at

expired_modifiers(lm, t) == {n \in DOMAIN lm : Expired(lm[n], t)}

\* _calculate_light_modifiers: the value returned
calculate_light_modifiers(lm, t) ==
    LET live == DOMAIN lm \ expired_modifiers(lm, t)
    IN  SumOver([n \in live |-> lm[n].light_change], live)

\* _calculate_light_modifiers: light_modifiers afterwards
purge_modifiers(lm, t) == Restrict(lm, DOMAIN lm \ expired_modifiers(lm, t))

\* Mutant: the hour before sunrise counts as night.
DawnIsNight(t) ==
    LET hour == (t \div 3600) % 24
    IN  IF 6 <= hour /\ hour <= 18 THEN 3
        ELSE IF 19 <= hour /\ hour <= 21 THEN 0 - 1
        ELSE 0 - 4

\* _get_outdoor_lighting
get_outdoor_lighting(t) ==
    LET hour == (t \div 3600) % 24
    IN  IF 6 <= hour /\ hour <= 18 THEN 3
        ELSE IF (19 <= hour /\ hour <= 21) \/ (5 <= hour /\ hour <= 6) THEN 0 - 1
        ELSE 0 - 4

\* _calculate_environmental_lighting
calculate_environmental_lighting(ty, t) ==
    CASE ty = "outdoor" -> get_outdoor_lighting(t)
      [] ty = "space" -> 0 - 8
      [] ty = "underground" -> 0 - 3
      [] OTHER -> 0

\* The sum before clamping.
total_light(b, lm, ty, act, amt, t) ==
    b + calculate_light_sources(act, amt) + calculate_light_modifiers(lm, t)
      + calculate_environmental_lighting(ty, t)

\* Mutant: only the upper end is clamped.
ClampAbove(x) == Min(10, x)

\* "return max(0, min(10, total_light))"
Clamp(x) == Max(0, Min(10, x))

\* get_current_light_level: the value returned
get_current_light_level(b, lm, ty, act, amt, t) ==
    Clamp(total_light(b, lm, ty, act, amt, t))

\* _save: the attributes written
Saved(b, lm, ty) ==
    [base_light_level |-> b, light_modifiers |-> lm, lighting_type |-> ty]

\* Mutant: the purge is not written back to the attributes.
SaveNever(expired, db, b, lm, ty) == db

\* "if expired_modifiers: self._save()"
SaveIfExpired(expired, db, b, lm, ty) ==
    IF expired # {} THEN Saved(b, lm, ty) ELSE db

\* lastOp when the last step computed no light level: op is "none" after
\* time has passed and "nothing" after a call that changed nothing.
\* seen is what a character looking at the room got, if the operation was a
\* look.
\* reply is what a light source's activate or deactivate returned, with the
\* call and the source in front, if the operation was one.
NoOp == [op |-> "none", level |-> 0 - 1, expired |-> {}, events |-> <<>>,
         told |-> <<>>, seen |-> <<>>, reply |-> <<>>]

\* _trigger_lighting_change_event: Event(event_type="lighting_change",
\* source=self.room, target=self.room, new_light_level=...). No other
\* keyword is passed, so the event carries no old_light_level.
lighting_event(level) ==
    [event_type |-> "lighting_change", source |-> "room", target |-> "room",
     new_light_level |-> level]

\* "old_level = getattr(event, 'old_light_level', new_level)"
old_level(event) ==
    IF "old_light_level" \in DOMAIN event THEN event.old_light_level
    ELSE event.new_light_level

Abs(x) == IF x < 0 THEN 0 - x ELSE x

\* Room._on_lighting_change: what the room tells its contents
on_lighting_change(event) ==
    IF Abs(event.new_light_level - old_level(event)) >= 2
    THEN IF event.new_light_level > old_level(event)
         THEN <<"The area becomes brighter.">>
         ELSE <<"The area becomes darker.">>
    ELSE <<>>

\* Room.handle_event
room_handle_event(event) ==
    IF event.event_type = "lighting_change" THEN on_lighting_change(event)
    ELSE <<>>

\* handleEvent on an event whose source and target are both the room (the
\* room has no location): Room.handle_event runs for the source and again
\* for the target.
told_by_dispatch(event) == room_handle_event(event) \o room_handle_event(event)

\* The effects of one get_current_light_level() call on a handler holding
\* (b, lm, ty), attributes db and sources (act, amt): the sources are asked
\* for their output, expired modifiers are purged and the purge is saved.
ReadState(b, lm, ty, db, act, amt) ==
    /\ base_light_level' = b
    /\ lighting_type' = ty
    /\ light_modifiers' = purge_modifiers(lm, now)
    /\ db_lighting' = SaveIfExpired(expired_modifiers(lm, now), db, b,
                                    purge_modifiers(lm, now), ty)
    /\ srcActive' = [s \in Sources |-> active_after_output(act[s], amt[s])]
    /\ srcAmount' = amt

\* The outcome of that call for an operation op; ev counts the
\* lighting_change events the operation dispatched.
ReadOutcome(op, b, lm, ty, act, amt, ev) ==
    LET level == get_current_light_level(b, lm, ty, act, amt, now)
    IN  [op |-> op,
         level |-> level,
         expired |-> expired_modifiers(lm, now),
         events |-> IF ev > 0 THEN <<lighting_event(level)>> ELSE <<>>,
         told |-> IF ev > 0 THEN told_by_dispatch(lighting_event(level))
                  ELSE <<>>,
         seen |-> <<>>,
         reply |-> <<>>]

ReadEffects(op, b, lm, ty, db, act, amt, ev) ==
    /\ ReadState(b, lm, ty, db, act, amt)
    /\ lastOp' = ReadOutcome(op, b, lm, ty, act, amt, ev)

\* The vision types of VisionHandler.get_vision_capability.
VisionTypes == {"normal", "low_light", "night_vision", "thermal"}

\* Mutant: night vision needs some light, as the other vision types do.
VisibilityNeedsLight(current_light, vision_type) ==
    IF current_light >= 7 THEN <<"bright", "">>
    ELSE IF current_light >= 4 THEN <<"normal", "">>
    ELSE IF current_light >= 1
         THEN IF vision_type = "night_vision" THEN <<"night_vision", "|g">>
              ELSE IF vision_type = "low_light" THEN <<"dim", "|y">>
              ELSE <<"dark", "">>
         ELSE <<"too_dark", "">>

\* LightingHandler.get_visibility_description, given the level it read and
\* character.get_vision_type(): the pair (tier, color tag)
get_visibility_description(current_light, vision_type) ==
    IF current_light >= 7 THEN <<"bright", "">>
    ELSE IF current_light >= 4 THEN <<"normal", "">>
    ELSE IF current_light >= 1
         THEN IF vision_type = "night_vision" THEN <<"night_vision", "|g">>
              ELSE IF vision_type = "low_light" THEN <<"dim", "|y">>
              ELSE <<"dark", "">>
         ELSE IF vision_type = "night_vision" THEN <<"night_vision", "|g">>
              ELSE <<"too_dark", "">>

TooDarkText == "|KIt's too dark to see anything.|n"

\* Room.return_appearance, given the visibility: the too-dark text, or the
\* room's normal appearance (wrapped in a color tag if there is one).
appearance_for(visibility) ==
    IF visibility[1] = "too_dark" THEN TooDarkText
    ELSE IF visibility[2] # "" THEN "appearance in color"
    ELSE "appearance"

\* Room.return_appearance(looker) for a looker of the given vision type.
return_appearance(vision_type) ==
    /\ ReadState(base_light_level, light_modifiers, lighting_type, db_lighting,
                 srcActive, srcAmount)
    /\ LET out == ReadOutcome("read", base_light_level, light_modifiers,
                              lighting_type, srcActive, srcAmount, 0)
           visibility == get_visibility_description(out.level, vision_type)
       IN  lastOp' = [out EXCEPT !.seen = <<vision_type, visibility[1],
                                            visibility[2],
                                            appearance_for(visibility)>>]
    /\ UNCHANGED now

\* A call of get_current_light_level() from outside the handler (the
\* lighting command, return_appearance).
ReadLight ==
    /\ ReadEffects("read", base_light_level, light_modifiers, lighting_type,
                   db_lighting, srcActive, srcAmount, 0)
    /\ UNCHANGED now

\* Mutant: a mutator that forgets self._save().
MutateWithoutSave(op, b, lm, ty) ==
    /\ ReadEffects(op, b, lm, ty, db_lighting, srcActive, srcAmount, 1)
    /\ UNCHANGED now

\* A mutator: the handler holds (b, lm, ty), _save() writes it, and
\* _trigger_lighting_change_event builds one Event with
\* new_light_level = get_current_light_level() and dispatches it.
MutateAndTrigger(op, b, lm, ty) ==
    /\ ReadEffects(op, b, lm, ty, Saved(b, lm, ty), srcActive, srcAmount, 1)
    /\ UNCHANGED now

\* A light source in the room was switched or drained: the room's
\* _trigger_lighting_change_event runs with the sources as (act, amt).
SourceTrigger(op, act, amt, reply) ==
    /\ ReadState(base_light_level, light_modifiers, lighting_type,
                 db_lighting, act, amt)
    /\ lastOp' = [ReadOutcome(op, base_light_level, light_modifiers,
                              lighting_type, act, amt, 1)
                  EXCEPT !.reply = reply]
    /\ UNCHANGED now

\* Nothing read, nothing dispatched: only the outcome is recorded.
NoTrigger(op, act, amt, reply) ==
    /\ srcActive' = act
    /\ srcAmount' = amt
    /\ lastOp' = [NoOp EXCEPT !.op = op, !.reply = reply]
    /\ UNCHANGED <<now, base_light_level, light_modifiers, lighting_type, db_lighting>>

modifier_data(change, duration) ==
    IF duration # 0 THEN [light_change |-> change, expires_at |-> now + duration]
    ELSE [light_change |-> change]

PutModifier(lm, name, data) ==
    [n \in DOMAIN lm \cup {name} |-> IF n = name THEN data ELSE lm[n]]

add_light_modifier(name, change, duration) ==
    MutateAndTrigger("mutator", base_light_level,
                     PutModifier(light_modifiers, name, modifier_data(change, duration)),
                     lighting_type)

remove_light_modifier(name) ==
    IF name \in DOMAIN light_modifiers
    THEN MutateAndTrigger("mutator", base_light_level,
                          Restrict(light_modifiers, DOMAIN light_modifiers \ {name}),
                          lighting_type)
    ELSE NoTrigger("absent", srcActive, srcAmount, <<>>)

\* "self.base_light_level = max(0, min(10, level))"
ClampBase(level) == Max(0, Min(10, level))

set_base_light_level(level) ==
    MutateAndTrigger("mutator", ClampBase(level), light_modifiers,
                     lighting_type)

set_lighting_type(ty) ==
    MutateAndTrigger("mutator", base_light_level, light_modifiers, ty)

Put(f, x, v) == [f EXCEPT ![x] = v]

\* activate: 'return False, f"The {obj.name} has no fuel remaining."' for a
\* fuel source, 'return False, f"The {obj.name}'s battery is dead."' for a
\* battery source
depleted_message(s) ==
    IF fuel_type(s) = "fuel" THEN "The {obj.name} has no fuel remaining."
    ELSE "The {obj.name}'s battery is dead."

\* Mutant: activate switches the source on without looking at its fuel.
ActivatesDepleted(s) ==
    SourceTrigger("source", Put(srcActive, s, TRUE), srcAmount,
                  <<"activate", s, TRUE, "You activate the {obj.name}.">>)

\* LightSourceBehavior.activate
activate(s) ==
    IF srcAmount[s] <= 0
    THEN NoTrigger("nothing", srcActive, srcAmount,
                   <<"activate", s, FALSE, depleted_message(s)>>)
    ELSE SourceTrigger("source", Put(srcActive, s, TRUE), srcAmount,
                       <<"activate", s, TRUE, "You activate the {obj.name}.">>)

\* LightSourceBehavior.deactivate
deactivate(s) ==
    SourceTrigger("source", Put(srcActive, s, FALSE), srcAmount,
                  <<"deactivate", s, TRUE, "You deactivate the {obj.name}.">>)

\* LightSourceBehavior.consume_fuel (it returns nothing)
consume_fuel(s, amount) ==
    LET left == Max(0, srcAmount[s] - amount)
    IN  IF left <= 0 /\ srcActive[s]
        THEN SourceTrigger("source", Put(srcActive, s, FALSE),
                           Put(srcAmount, s, left), <<>>)
        ELSE NoTrigger("nothing", srcActive, Put(srcAmount, s, left), <<>>)

\* Game time passes.
AdvanceTime(t) ==
    /\ t > now
    /\ now' = t
    /\ lastOp' = NoOp
    /\ UNCHANGED <<base_light_level, light_modifiers, lighting_type, db_lighting,
                   srcActive, srcAmount>>

\* LightingHandler._load defaults: level 5, no modifiers, indoor.
InitLighting ==
    /\ now = 0
    /\ base_light_level = 5
    /\ light_modifiers = << >>
    /\ lighting_type = "indoor"
    /\ db_lighting = Saved(5, << >>, "indoor")
    /\ srcActive = [s \in Sources |-> FALSE]
    /\ srcAmount = [s \in Sources |-> FullAmount(s)]
    /\ lastOp = NoOp

(***************************************************************************)
(* Airlock: typeclasses/rooms.py, class AirlockRoom                        *)
(***************************************************************************)

\* ---- bounds of the airlock model ----
MaxCalls == 2        \* cycle_airlock() calls in one behaviour
MaxTime == 22        \* the clock stops here

\* "self.db.cycle_time = 10"
cycle_time == 10

\* "delay(5, self._execute_cycle)"
WarningDelay == 5

\* The airlock, a corridor, and two rooms of open space.
Rooms == {"airlock", "hall", "space", "void"}

\* lighting.lighting_type of the rooms an exit may lead to
room_lighting_type(r) == IF r \in {"space", "void"} THEN "space" ELSE "indoor"

\* self.exits, in the order the room lists them
ExitOrder == <<"inner door", "outer door">>

Exits == {ExitOrder[i] : i \in 1..Len(ExitOrder)}

\* A character puppeted by an account and an NPC.
Movables == {"player", "thug"}

Things == Movables \cup Exits

has_account(th) == th = "player"

\* self.contents
contents(loc, r) == {th \in Things : loc[th] = r}

NoCall == [op |-> "none", ok |-> TRUE, msg |-> "", msgs |-> <<>>, moved |-> {},
           space_exit |-> None, since |-> 0]

\* Mutant: the guard of cycle_airlock is gone.
NeverCycling(flag) == FALSE

\* "if self.db.is_cycling: return False, ..."
AlreadyCycling(flag) == flag

Schedule(ts, d, fn) == Append(ts, [at |-> now + d, fn |-> fn, since |-> now])

\* _execute_cycle, run with the callbacks ts pending
execute_cycle(ts) ==
    /\ is_cycling' = TRUE
    /\ MutateAndTrigger("mutator", base_light_level,
                        PutModifier(light_modifiers, "cycling_lights",
                                    modifier_data(0 - 2, cycle_time)),
                        lighting_type)
    /\ timers' = Schedule(ts, cycle_time, "eject_contents")
    /\ UNCHANGED <<location, exitDest>>

CyclingMsgs == <<"AIRLOCK CYCLING! Emergency lighting activated.",
                 "Klaxons blare as the outer door begins to open...">>

\* cycle_airlock
cycle_airlock ==
    /\ nCalls < MaxCalls
    /\ nCalls' = nCalls + 1
    /\ IF AlreadyCycling(is_cycling)
       THEN /\ lastCall' = [NoCall EXCEPT !.op = "cycle_airlock", !.ok = FALSE,
                                          !.msg = "Airlock is already cycling!"]
            /\ UNCHANGED <<lightVars, location, exitDest, is_cycling, timers>>
       ELSE IF \E th \in contents(location, "airlock") : has_account(th)
       THEN /\ timers' = Schedule(timers, WarningDelay, "execute_cycle")
            /\ lastCall' = [NoCall EXCEPT !.op = "cycle_airlock",
                                          !.msg = "Airlock cycling initiated...",
                                          !.msgs = <<"WARNING: Characters detected in airlock! Cycling will commence in 5 seconds.">>]
            /\ UNCHANGED <<lightVars, location, exitDest, is_cycling>>
       ELSE /\ execute_cycle(timers)
            /\ lastCall' = [NoCall EXCEPT !.op = "cycle_airlock",
                                          !.msg = "Airlock cycling initiated...",
                                          !.msgs = CyclingMsgs]

\* Mutant: the first exit is taken, wherever it leads.
FirstExitOfAny(dest) == ExitOrder[1]

\* "for exit_obj in self.exits: if ... lighting_type == 'space': break"
find_space_exit(dest) ==
    LET hits == {i \in 1..Len(ExitOrder) :
                    room_lighting_type(dest[ExitOrder[i]]) = "space"}
    IN  IF hits = {} THEN None
        ELSE ExitOrder[CHOOSE i \in hits : \A j \in hits : i <= j]

\* Mutant: every object in the room is thrown out, the doors too.
NothingIsExit(th) == FALSE

\* "if not obj.destination" fails for an exit
IsExit(th) == th \in Exits

\* Mutant: an ejection that finds no space exit gives up and leaves the
\* airlock cycling.
AbortStaysCycling(t) ==
    LET space_exit == find_space_exit(exitDest)
        ejected == {th \in contents(location, "airlock") : ~IsExit(th)}
    IN  IF space_exit = None
        THEN /\ is_cycling' = is_cycling
             /\ lastCall' = [NoCall EXCEPT !.op = "eject_contents",
                                           !.msgs = <<"Error: No space exit found!">>,
                                           !.since = t.since]
             /\ UNCHANGED <<lightVars, location, exitDest>>
        ELSE /\ location' = [th \in Things |->
                                IF th \in ejected THEN exitDest[space_exit]
                                ELSE location[th]]
             /\ is_cycling' = FALSE
             /\ remove_light_modifier("cycling_lights")
             /\ lastCall' = [NoCall EXCEPT !.op = "eject_contents",
                                           !.moved = ejected,
                                           !.space_exit = space_exit,
                                           !.since = t.since]
             /\ UNCHANGED exitDest

\* _eject_contents, fired as the callback t
eject_contents(t) ==
    LET space_exit == find_space_exit(exitDest)
        ejected == {th \in contents(location, "airlock") : ~IsExit(th)}
    IN  IF space_exit = None
        THEN /\ is_cycling' = FALSE
             /\ lastCall' = [NoCall EXCEPT !.op = "eject_contents",
                                           !.msgs = <<"Error: No space exit found!">>,
                                           !.since = t.since]
             /\ UNCHANGED <<lightVars, location, exitDest>>
        ELSE /\ location' = [th \in Things |->
                                IF th \in ejected THEN exitDest[space_exit]
                                ELSE location[th]]
             /\ is_cycling' = FALSE
             /\ remove_light_modifier("cycling_lights")
             /\ lastCall' = [NoCall EXCEPT !.op = "eject_contents",
                                           !.msgs = (IF ejected # {}
                                                     THEN <<"Ejected to space">>
                                                     ELSE <<>>)
                                                    \o <<"Airlock cycle complete. Chamber sealed.">>,
                                           !.moved = ejected,
                                           !.space_exit = space_exit,
                                           !.since = t.since]
             /\ UNCHANGED exitDest

RemoveAt(seq, i) == [j \in 1..(Len(seq) - 1) |-> IF j < i THEN seq[j] ELSE seq[j + 1]]

\* The host runs a callback scheduled with delay() once its time has come.
FireTimer(i) ==
    /\ i \in 1..Len(timers)
    /\ timers[i].at <= now
    /\ IF timers[i].fn = "execute_cycle"
       THEN /\ execute_cycle(RemoveAt(timers, i))
            /\ lastCall' = [NoCall EXCEPT !.op = "execute_cycle", !.msgs = CyclingMsgs,
                                          !.since = timers[i].since]
       ELSE /\ eject_contents(timers[i])
            /\ timers' = RemoveAt(timers, i)
    /\ UNCHANGED nCalls

\* One second passes; callbacks that are due run first.
Tick ==
    /\ now < MaxTime
    /\ \A i \in 1..Len(timers) : timers[i].at > now
    /\ now' = now + 1
    /\ lastCall' = NoCall
    /\ lastOp' = NoOp
    /\ UNCHANGED <<base_light_level, light_modifiers, lighting_type, db_lighting,
                   srcActive, srcAmount, location, exitDest, is_cycling, timers,
                   nCalls>>

\* The player walks between the corridor and the airlock.
MovePlayer(r) ==
    /\ location["player"] # r
    /\ location' = [location EXCEPT !["player"] = r]
    /\ lastCall' = NoCall
    /\ UNCHANGED <<lightVars, exitDest, is_cycling, timers, nCalls>>

\* AirlockRoom._setup_default_lighting and at_object_creation: indoor, base
\* level 3, the permanent emergency_lighting modifier; the lazy purge has
\* nothing to purge. The NPC stands in the airlock, the player in the
\* corridor; each door leads to a room chosen when the world is built.
InitAirlock ==
    /\ now = 0
    /\ base_light_level = 3
    /\ light_modifiers = [n \in {"emergency_lighting"} |-> [light_change |-> 1]]
    /\ lighting_type = "indoor"
    /\ db_lighting = Saved(base_light_level, light_modifiers, lighting_type)
    /\ srcActive = [s \in Sources |-> FALSE]
    /\ srcAmount = [s \in Sources |-> FullAmount(s)]
    /\ lastOp = NoOp
    /\ exitDest \in [Exits -> Rooms \ {"airlock"}]
    /\ location = [th \in Things |->
                      IF th = "player" THEN "hall" ELSE "airlock"]
    /\ is_cycling = FALSE
    /\ timers = << >>
    /\ nCalls = 0
    /\ lastCall = NoCall

(***************************************************************************)
(* Character generation wizard: world/chargen.py, world/tables.py          *)
(***************************************************************************)

\* ---- bounds of the wizard model ----
MaxSkillPoints == 4  \* skill levels one sheet is granted in all
MaxFoci == 1         \* foci one sheet collects

\* The nodes of create_char_menu.
WizardNodes ==
    {"start", "background", "background_select", "background_skills",
     "select_growth", "select_learning", "class_select", "class_skills",
     "foci_select", "equipment", "name_character", "review", "confirm", "end"}

\* pick_stats(): the total rolled for an ability (3d6), sampled.
StatTotals == {10, 18}

\* tables.background: the two Background records
background ==
    << [name |-> "Barbarian",
        free_skill |-> <<"Survive">>,
        quick_skills |-> <<"Surive", "Notice", "Any-Combat">>,
        growth |-> << [value |-> 1, stat |-> "Any Stat"],
                      [value |-> 2, stat |-> "Physical"],
                      [value |-> 2, stat |-> "Physical"],
                      [value |-> 2, stat |-> "Mental"],
                      [value |-> 1, stat |-> "Exert"],
                      [value |-> 1, stat |-> "Any Skill"] >>,
        learning |-> << [value |-> 1, stat |-> "Any Combat"],
                        [value |-> 1, stat |-> "Connect"],
                        [value |-> 1, stat |-> "Exert"],
                        [value |-> 1, stat |-> "Lead"],
                        [value |-> 1, stat |-> "Notice"],
                        [value |-> 1, stat |-> "Punch"],
                        [value |-> 1, stat |-> "Sneak"],
                        [value |-> 1, stat |-> "Survive"] >>],
       [name |-> "Clergy",
        free_skill |-> <<"Talk">>,
        quick_skills |-> <<"Talk", "Perform", "Know">>,
        growth |-> << [value |-> 1, stat |-> "Any Stat"],
                      [value |-> 2, stat |-> "Mental"],
                      [value |-> 2, stat |-> "Physical"],
                      [value |-> 2, stat |-> "Mental"],
                      [value |-> 1, stat |-> "Connect"],
                      [value |-> 1, stat |-> "Any Skill"] >>,
        learning |-> << [value |-> 1, stat |-> "Administer"],
                        [value |-> 1, stat |-> "Connect"],
                        [value |-> 1, stat |-> "Know"],
                        [value |-> 1, stat |-> "Lead"],
                        [value |-> 1, stat |-> "Notice"],
                        [value |-> 1, stat |-> "Perform"],
                        [value |-> 1, stat |-> "Talk"],
                        [value |-> 1, stat |-> "Talk"] >>] >>

\* tables.background_list: the names, in order
background_list == [i \in 1..Len(background) |-> background[i].name]

\* tables.backgrounds: the name-keyed map to the Background records
backgrounds ==
    [n \in {background[i].name : i \in 1..Len(background)} |->
        background[CHOOSE i \in 1..Len(background) : background[i].name = n]]

\* The options picked at select_growth and select_learning (0-based, as
\* growth_idx and learning_idx): a synthetic category and a concrete skill.
GrowthPicks == {0, 4}

LearningPicks == {0, 7}

\* The classes and foci picked, out of those node_class_select and
\* node_foci_select offer.
ClassPicks == {"Warrior", "Psychic"}

FocusPicks == {"Alert", "Gunslinger"}

\* What the player types at name_character.
NameInputs == {"", "   ", " Zed "}

\* Mutant: the input is taken as typed.
AsTyped(raw) == raw

\* raw_input.strip()
strip(raw) ==
    CASE raw = "" -> ""
      [] raw = "   " -> ""
      [] raw = " Zed " -> "Zed"
      [] OTHER -> raw

\* sheet[key] = value
SheetSet(sh, key, value) ==
    [k \in DOMAIN sh \cup {key} |-> IF k = key THEN value ELSE sh[k]]

\* sheet['skills'], or the empty dict _apply_* create when there is none
SheetSkills(sh) == IF "skills" \in DOMAIN sh THEN sh["skills"] ELSE << >>

\* "sheet['skills'][skill] = sheet['skills'].get(skill, 0) + value"
AddSkill(skills, skill, value) ==
    [k \in DOMAIN skills \cup {skill} |->
        IF k = skill
        THEN (IF skill \in DOMAIN skills THEN skills[skill] ELSE 0) + value
        ELSE skills[k]]

RECURSIVE AddSkills(_, _)
\* the loop "for skill in ...: skills[skill] = skills.get(skill, 0) + 1"
AddSkills(skills, names) ==
    IF names = << >> THEN skills
    ELSE AddSkills(AddSkill(skills, Head(names), 1), Tail(names))

\* The skill levels a sheet holds in all.
SkillPoints(skills) == SumOver(skills, DOMAIN skills)

\* The body of a node function, as far as it writes the sheet: most nodes
\* record themselves in current_node; background_select, select_growth,
\* select_learning and end do not; confirm clears it. raw is the input that
\* led to the node and roll what pick_stats() returns if it is called.
RunNode(node, sh, raw, roll) ==
    CASE node = "start" ->
           LET rolled == IF "stats" \notin DOMAIN sh \/ raw = "r"
                         THEN SheetSet(sh, "stats", roll) ELSE sh
           IN  SheetSet(rolled, "current_node", "start")
      [] node \in {"background", "background_skills", "class_select",
                   "class_skills", "foci_select", "name_character", "review"} ->
           SheetSet(sh, "current_node", node)
      [] node = "equipment" ->
           SheetSet(SheetSet(sh, "current_node", "equipment"),
                    "equipment", "standard package")
      [] node = "confirm" -> SheetSet(sh, "current_node", None)
      [] OTHER -> sh

\* A node that returns no options ends the menu session.
EndsMenu(node) == node \in {"confirm", "end"}

\* lastWiz when nothing has happened yet.
NoWiz == [op |-> "none", from |-> None, ended |-> "none", input |-> ""]

\* lastWiz after a step taken inside the menu session, at the node shown.
Did(op) == [op |-> op, from |-> menuNode, ended |-> "none", input |-> ""]

\* The menu goes to a node: the node function runs and its options are
\* shown, or the session ends.
GoTo(outcome, node, sh, raw, roll, kw) ==
    /\ sheet' = RunNode(node, sh, raw, roll)
    /\ menuNode' = IF EndsMenu(node) THEN None ELSE node
    /\ menuKwargs' = IF EndsMenu(node) THEN << >> ELSE kw
    /\ lastWiz' = outcome

\* Mutant: the command always starts over.
ResumeAtStart(sh) == "start"

\* SWNCmdCharCreate.func: "sheet.get('current_node', 'start')", and 'start'
\* for a cleared current_node
ResumeNode(sh) ==
    IF "current_node" \in DOMAIN sh /\ sh["current_node"] # None
    THEN sh["current_node"] ELSE "start"

\* The charcreate command, typed when no menu session is open. lastWiz
\* keeps how the session before it ended, and at which node.
Charcreate(roll) ==
    /\ menuNode = None
    /\ GoTo([op |-> "charcreate", from |-> lastWiz.from, ended |-> lastWiz.op,
             input |-> ""],
            ResumeNode(sheet), sheet, "", roll, << >>)

\* The options of a node whose goto is a node name: <<key, raw input,
\* target node, keyword context>>.
PlainOptions(node) ==
    LET abort == {<<"abort", "a", "end", << >> >>}
    IN  CASE node = "start" ->
               {<<"reroll", "r", "start", << >> >>,
                <<"reroll", "reroll", "start", << >> >>,
                <<"next", "n", "background", << >> >>,
                <<"_default", "x", "start", << >> >>} \cup abort
          [] node = "background" ->
               {<<"pick", background_list[i], "background_select",
                  [selected_background |-> backgrounds[background_list[i]]]>> :
                     i \in 1..Len(background_list)}
               \cup {<<"back", "b", "start", << >> >>} \cup abort
          [] node = "background_select" ->
               {<<"back", "b", "background", << >> >>} \cup abort
          [] node = "background_skills" ->
               {<<"growth", "g", "select_growth", << >> >>,
                <<"learning", "l", "select_learning", << >> >>,
                <<"back", "b", "background", << >> >>,
                <<"next", "n", "class_select", << >> >>} \cup abort
          [] node \in {"select_growth", "select_learning"} ->
               {<<"back", "b", "background_skills", << >> >>} \cup abort
          [] node = "class_select" ->
               {<<"back", "b", "background_skills", << >> >>} \cup abort
          [] node = "class_skills" ->
               {<<"next", "n", "foci_select", << >> >>,
                <<"back", "b", "class_select", << >> >>} \cup abort
          [] node = "foci_select" ->
               {<<"back", "b", "class_skills", << >> >>} \cup abort
          [] node = "equipment" ->
               {<<"next", "n", "name_character", << >> >>,
                <<"back", "b", "foci_select", << >> >>} \cup abort
          [] node = "name_character" ->
               {<<"back", "b", "equipment", << >> >>} \cup abort
          [] node = "review" ->
               {<<"confirm", "c", "confirm", << >> >>,
                <<"back", "b", "name_character", << >> >>} \cup abort
          [] OTHER -> {}

\* The player picks an option whose goto is a node name.
Choose(opt, roll) ==
    /\ menuNode # None
    /\ opt \in PlainOptions(menuNode)
    /\ GoTo(Did(IF opt[1] = "abort" THEN "abort" ELSE "choose"),
            opt[3], sheet, opt[2], roll, opt[4])

\* Mutant: the free skills are granted twice over.
GrantsTwice(sh, selected_background) ==
    LET named == SheetSet(sh, "background", selected_background.name)
        once == AddSkills(SheetSkills(named), selected_background.free_skill)
    IN  SheetSet(named, "skills", AddSkills(once, selected_background.free_skill))

\* _apply_background: the sheet afterwards
apply_background(sh, selected_background) ==
    LET named == SheetSet(sh, "background", selected_background.name)
    IN  SheetSet(named, "skills",
                 AddSkills(SheetSkills(named), selected_background.free_skill))

\* Select at background_select: goto _apply_background, which returns
\* "background_skills"
ApplyBackground ==
    /\ menuNode = "background_select"
    /\ LET after == apply_background(sheet, menuKwargs.selected_background)
       IN  /\ SkillPoints(after["skills"]) <= MaxSkillPoints
           /\ GoTo(Did("select"), "background_skills", after, "s", 0, << >>)

\* _apply_growth: the sheet afterwards
apply_growth(sh, growth_idx) ==
    LET growth == backgrounds[sh["background"]].growth[growth_idx + 1]
        chosen == SheetSet(sh, "selected_growth",
                           [stat |-> growth.stat, value |-> growth.value])
    IN  IF growth.stat \notin {"Any Stat", "Physical", "Mental", "Any Skill"}
        THEN SheetSet(chosen, "skills",
                      AddSkill(SheetSkills(chosen), growth.stat, growth.value))
        ELSE chosen

ApplyGrowth(growth_idx) ==
    /\ menuNode = "select_growth"
    /\ LET after == apply_growth(sheet, growth_idx)
       IN  /\ SkillPoints(SheetSkills(after)) <= MaxSkillPoints
           /\ GoTo(Did("apply"), "background_skills", after, "1", 0, << >>)

\* _apply_learning: the sheet afterwards
apply_learning(sh, learning_idx) ==
    LET learning == backgrounds[sh["background"]].learning[learning_idx + 1]
    IN  SheetSet(sh, "skills",
                 AddSkill(SheetSkills(sh), learning.stat, learning.value))

ApplyLearning(learning_idx) ==
    /\ menuNode = "select_learning"
    /\ LET after == apply_learning(sheet, learning_idx)
       IN  /\ SkillPoints(after["skills"]) <= MaxSkillPoints
           /\ GoTo(Did("apply"), "background_skills", after, "1", 0, << >>)

\* _quick_select: "Any-Combat" counts as "Shoot"
quick_names(quick_skills) ==
    [i \in 1..Len(quick_skills) |->
        IF quick_skills[i] = "Any-Combat" THEN "Shoot" ELSE quick_skills[i]]

\* _quick_select: the sheet afterwards
quick_select(sh, quick_skills) ==
    SheetSet(sh, "skills", AddSkills(SheetSkills(sh), quick_names(quick_skills)))

\* Quick at background_skills: goto _quick_select, which returns
\* "class_select"
QuickSelect ==
    /\ menuNode = "background_skills"
    /\ LET after == quick_select(sheet,
                                 backgrounds[sheet["background"]].quick_skills)
       IN  /\ SkillPoints(after["skills"]) <= MaxSkillPoints
           /\ GoTo(Did("apply"), "class_select", after, "q", 0, << >>)

\* _apply_class
ApplyClass(class_name) ==
    /\ menuNode = "class_select"
    /\ GoTo(Did("apply"), "class_skills", SheetSet(sheet, "class", class_name),
            class_name, 0, << >>)

\* _apply_focus: "sheet['foci'].append(focus_name)"
ApplyFocus(focus_name) ==
    /\ menuNode = "foci_select"
    /\ LET foci == IF "foci" \in DOMAIN sheet THEN sheet["foci"] ELSE << >>
       IN  /\ Len(foci) < MaxFoci
           /\ GoTo(Did("apply"), "equipment",
                   SheetSet(sheet, "foci", Append(foci, focus_name)),
                   focus_name, 0, << >>)

\* node_review: what the summary prints after "Name: ". "name" is first
\* sheet.get('name', "Unnamed"); when the sheet holds skills,
\* "name, level = map(list, zip(*sheet['skills'].items()))" binds it anew to
\* the list of skill names. <<"str", text>> or <<"list", the names>>.
review_name(sh) ==
    IF SheetSkills(sh) # << >>
    THEN <<"list", DOMAIN SheetSkills(sh)>>
    ELSE <<"str", IF "name" \in DOMAIN sh THEN sh["name"] ELSE "Unnamed">>

\* Mutant: any input is taken for a name, a blank one too.
NamesAnything(raw) ==
    /\ menuNode = "name_character"
    /\ GoTo([Did("apply") EXCEPT !.input = raw], "review",
            SheetSet(sheet, "name", strip(raw)), raw, 0, << >>)

\* _apply_name, the goto of the _default option of name_character
ApplyName(raw) ==
    /\ menuNode = "name_character"
    /\ LET typed == [Did("apply") EXCEPT !.input = raw]
       IN  IF strip(raw) = ""
           THEN GoTo(typed, "name_character", sheet, raw, 0, << >>)
           ELSE GoTo(typed, "review", SheetSet(sheet, "name", strip(raw)),
                     raw, 0, << >>)

\* The player leaves the menu session (the menu's quit command, a dropped
\* connection): the session closes and the sheet stays as it is.
Quit ==
    /\ menuNode # None
    /\ menuNode' = None
    /\ menuKwargs' = << >>
    /\ lastWiz' = Did("quit")
    /\ UNCHANGED sheet

\* A caller who never ran charcreate: the command creates the empty sheet.
InitWizard ==
    /\ sheet = << >>
    /\ menuNode = None
    /\ menuKwargs = << >>
    /\ lastWiz = NoWiz

QuietWizardOthers ==
    UNCHANGED <<dispatchVars, lightVars, airlockVars, hackVars, otherVars>>

NextWizard ==
    \/ \E roll \in StatTotals : Charcreate(roll) /\ QuietWizardOthers
    \/ \E roll \in StatTotals : \E opt \in PlainOptions(menuNode) :
          Choose(opt, roll) /\ QuietWizardOthers
    \/ ApplyBackground /\ QuietWizardOthers
    \/ \E growth_idx \in GrowthPicks : ApplyGrowth(growth_idx) /\ QuietWizardOthers
    \/ \E learning_idx \in LearningPicks :
          ApplyLearning(learning_idx) /\ QuietWizardOthers
    \/ QuickSelect /\ QuietWizardOthers
    \/ \E class_name \in ClassPicks : ApplyClass(class_name) /\ QuietWizardOthers
    \/ \E focus_name \in FocusPicks : ApplyFocus(focus_name) /\ QuietWizardOthers
    \/ \E raw \in NameInputs : ApplyName(raw) /\ QuietWizardOthers
    \/ Quit /\ QuietWizardOthers

(***************************************************************************)
(* Skills and hacking: world/skills.py, world/systems.py, world/tables.py  *)
(***************************************************************************)

\* ---- bounds of the hacking model ----
MaxLevel == 3        \* highest skill level the hacker's ledger is given

\* The skills checked: one the hacker may be trained in, one never trained.
SkillNames == {"Hack", "Pilot"}

Abilities == {"int", "dex"}

\* character.db.<ability> values the hacker is given: the ends of every
\* range of attribute_modifier_tbl, and one value beyond the table.
StatValues(attr) == IF attr = "int" THEN {3, 7, 10, 14, 18, 20} ELSE {3}

\* SkillSystem.DIFFICULTY_TRIVIAL, DIFFICULTY_MODERATE, DIFFICULTY_IMPOSSIBLE
Difficulties == {6, 10, 16}

SecurityLevels == {1, 5}

\* HackableBehavior(difficulty, hack_time, security_level): the fields the
\* resolvers read
HackableConfigs ==
    [difficulty : Difficulties, security_level : SecurityLevels]

\* modifiers arguments of make_skill_check: none, the pair of the unit test,
\* a security penalty
ModifierSets ==
    {<< >>, [tools |-> 2, rushed |-> 0 - 2], [security |-> 0 - 8]}

Die == 1..6

\* tables.lookup(value, attribute_modifier_tbl): <<result>>, or << >> for
\* the None of a value in no range
lookup_attribute_modifier(value) ==
    IF value = 3 THEN <<0 - 2>>
    ELSE IF value \in 4..7 THEN <<0 - 1>>
    ELSE IF value \in 8..13 THEN <<0>>
    ELSE IF value \in 14..17 THEN <<1>>
    ELSE IF value = 18 THEN <<2>>
    ELSE << >>

\* SkillSystem._get_attribute_modifier: skill_attributes.get(skill, 'int')
skill_attributes(skill_name) ==
    CASE skill_name \in {"Hack", "Program", "Fix", "Know", "Heal"} -> "int"
      [] skill_name \in {"Notice", "Survive", "Connect"} -> "wis"
      [] skill_name \in {"Talk", "Lead", "Trade", "Perform"} -> "cha"
      [] skill_name \in {"Exert", "Punch"} -> "str"
      [] skill_name \in {"Stab", "Shoot", "Sneak", "Pilot"} -> "dex"
      [] OTHER -> "int"

\* SkillSystem._get_skill_level
get_skill_level(skill_name) ==
    IF skill_name \in DOMAIN skill_data THEN skill_data[skill_name] ELSE 0

\* SkillSystem._get_attribute_modifier; an unset db attribute reads as None,
\* which is in no range of the table: "lookup(...) or 0"
get_attribute_modifier(skill_name, override_attr) ==
    LET attr_name == IF override_attr # None THEN override_attr
                     ELSE skill_attributes(skill_name)
        found == IF attr_name \in DOMAIN stats
                 THEN lookup_attribute_modifier(stats[attr_name])
                 ELSE << >>
    IN  IF found = << >> THEN 0 ELSE found[1]

\* Mutant: a check that succeeds only above the difficulty.
StrictlyAbove(total_roll, difficulty) == total_roll > difficulty

\* "success = total_roll >= difficulty"
Succeeds(total_roll, difficulty) == total_roll >= difficulty

\* SkillSystem.make_skill_check with the dice d1 and d2: the SkillCheckResult
make_skill_check(skill_name, difficulty, attribute, modifiers, d1, d2) ==
    LET skill_level == get_skill_level(skill_name)
        attribute_modifier == get_attribute_modifier(skill_name, attribute)
        difficulty_modifier == SumOver(modifiers, DOMAIN modifiers)
        total_modifier == skill_level + attribute_modifier + difficulty_modifier
        roll == d1 + d2
        total_roll == roll + total_modifier
    IN  [success |-> Succeeds(total_roll, difficulty),
         roll |-> roll,
         target_number |-> difficulty,
         skill_level |-> skill_level,
         attribute_modifier |-> attribute_modifier,
         difficulty_modifier |-> difficulty_modifier,
         total_modifier |-> total_modifier,
         margin |-> total_roll - difficulty]

\* lastHack when no operation has an outcome to show.
NoHack ==
    [op |-> "none", args |-> << >>, dispatched |-> FALSE, result |-> << >>,
     hacker_msgs |-> << >>, target_msgs |-> << >>, cancelled |-> FALSE,
     access_level |-> None, security_triggered |-> FALSE]

\* HackableSystem._has_hacking_tools, _target_is_powered_down: stubs
has_hacking_tools == FALSE

target_is_powered_down == FALSE

\* HackableSystem.attempt_hack: the modifiers it derives from the config
hack_modifiers(config) ==
    LET security == [security |-> 0 - ((config.security_level - 1) * 2)]
        tools == IF has_hacking_tools THEN [tools |-> 2] ELSE << >>
        power == IF target_is_powered_down THEN [powered_down |-> 4] ELSE << >>
    IN  [n \in DOMAIN security \cup DOMAIN tools \cup DOMAIN power |->
            IF n \in DOMAIN security THEN security[n]
            ELSE IF n \in DOMAIN tools THEN tools[n] ELSE power[n]]

\* HackableSystem._handle_successful_hack: the target is told unless the
\* access level is admin
handle_successful_hack(margin) ==
    LET access_level == IF margin >= 6 THEN "admin" ELSE "user"
    IN  [hacker_msgs |-> IF margin >= 6 THEN <<"Exceptional hack">>
                         ELSE IF margin >= 3 THEN <<"Clean hack">>
                         ELSE <<"hacked, but noticed">>,
         target_msgs |-> IF access_level # "admin" THEN <<"SECURITY ALERT">>
                         ELSE << >>,
         access_level |-> access_level,
         security_triggered |-> ~(margin >= 3)]

\* HackableSystem._handle_failed_hack
handle_failed_hack(margin) ==
    LET security_triggered == margin <= 0 - 3
    IN  [hacker_msgs |-> IF margin <= 0 - 6 THEN <<"Critical failure">>
                         ELSE IF margin <= 0 - 3 THEN <<"Failed, noticed">>
                         ELSE <<"Failed, unnoticed">>,
         target_msgs |-> IF security_triggered THEN <<"SECURITY BREACH">>
                         ELSE << >>,
         access_level |-> None,
         security_triggered |-> security_triggered]

\* The outcome of HackableSystem.attempt_hack(hacker, target, config)
attempt_hack_outcome(config, d1, d2) ==
    LET result == make_skill_check("Hack", config.difficulty, None,
                                   hack_modifiers(config), d1, d2)
        handled == IF result.success THEN handle_successful_hack(result.margin)
                   ELSE handle_failed_hack(result.margin)
    IN  [op |-> "attempt_hack", args |-> config, dispatched |-> FALSE,
         result |-> result,
         hacker_msgs |-> handled.hacker_msgs,
         target_msgs |-> handled.target_msgs,
         cancelled |-> FALSE,
         access_level |-> handled.access_level,
         security_triggered |-> handled.security_triggered]

\* The outcome of HackableBehavior.handle_hack_event on an event with a
\* fresh context: success is random.random() < success_chance, and
\* success_chance lies in 0.1..0.7 whatever the configuration, so either
\* outcome can happen (lucky). No skill check is made.
handle_hack_event_outcome(config, lucky) ==
    [op |-> "handle_hack_event", args |-> config, dispatched |-> FALSE,
     result |-> << >>,
     hacker_msgs |-> IF lucky THEN <<"You successfully hack">>
                     ELSE <<"Your hack attempt fails">>,
     target_msgs |-> IF lucky THEN <<"You have been hacked">>
                     ELSE <<"attempted to hack you but failed">>,
     cancelled |-> ~lucky,
     access_level |-> None,
     security_triggered |-> FALSE]

\* "hasattr(caller, 'skills') and caller.skills.all().get('Hack')"
HasHackSkill == "Hack" \in DOMAIN skill_data

\* "hasattr(target, 'behaviors') and target.behaviors.get('hackable')"
IsHackable == "hackable" \in DOMAIN behavior_data

\* The outcome of CmdHack.func: args is whether a target was named, found
\* whether caller.search found it, blocked what the hooks of the dispatch
\* left in event.context.cancelled.
cmd_hack_outcome(args, found, blocked) ==
    LET reply(msgs) ==
            [NoHack EXCEPT !.op = "hack", !.hacker_msgs = msgs,
                           !.args = [named |-> args, found |-> found]]
    IN  IF ~args THEN reply(<<"Hack what? Usage: hack <target>">>)
        ELSE IF ~found THEN reply(<< >>)
        ELSE IF ~HasHackSkill THEN reply(<<"You don't have the Hack skill.">>)
        ELSE IF ~IsHackable THEN reply(<<"<target> is not hackable.">>)
        ELSE [reply(IF blocked
                    THEN <<"Your hack attempt on <target> was blocked.">>
                    ELSE <<"You attempt to hack <target>.">>)
              EXCEPT !.dispatched = TRUE, !.cancelled = blocked]

\* One operation at a time: the next one starts when the outcome of the
\* last one has been dropped (any change of the setting drops it).
Ready == lastHack = NoHack

\* SkillSystem.make_skill_check called on the hacker
MakeSkillCheck(skill_name, difficulty, attribute, modifiers, d1, d2) ==
    /\ Ready
    /\ lastHack' = [NoHack EXCEPT
                      !.op = "make_skill_check",
                      !.args = [skill_name |-> skill_name,
                                difficulty |-> difficulty,
                                modifiers |-> modifiers],
                      !.result = make_skill_check(skill_name, difficulty,
                                                  attribute, modifiers, d1, d2)]
    /\ UNCHANGED <<skill_data, stats, behavior_data>>

\* HackableSystem.attempt_hack called with the target's configuration
AttemptHack(d1, d2) ==
    /\ Ready
    /\ IsHackable
    /\ lastHack' = attempt_hack_outcome(behavior_data["hackable"], d1, d2)
    /\ UNCHANGED <<skill_data, stats, behavior_data>>

\* HackableBehavior.handle_event called with a "hack" event
HandleHackEvent(lucky) ==
    /\ Ready
    /\ IsHackable
    /\ lastHack' = handle_hack_event_outcome(behavior_data["hackable"], lucky)
    /\ UNCHANGED <<skill_data, stats, behavior_data>>

\* The hack command
CmdHack(args, found, blocked) ==
    /\ Ready
    /\ blocked => (args /\ found /\ HasHackSkill /\ IsHackable)
    /\ lastHack' = cmd_hack_outcome(args, found, blocked)
    /\ UNCHANGED <<skill_data, stats, behavior_data>>

\* SkillHandler.add({'key': skill, 'level': level})
skills_add(skill_name, level) ==
    /\ skill_data' = [n \in DOMAIN skill_data \cup {skill_name} |->
                         IF n = skill_name THEN level ELSE skill_data[n]]
    /\ lastHack' = NoHack
    /\ UNCHANGED <<stats, behavior_data>>

\* SkillHandler.remove(skill): "del self.skill_data[skill_key]"
skills_remove(skill_name) ==
    /\ skill_name \in DOMAIN skill_data
    /\ skill_data' = Restrict(skill_data, DOMAIN skill_data \ {skill_name})
    /\ lastHack' = NoHack
    /\ UNCHANGED <<stats, behavior_data>>

\* character.db.<ability> = value
SetStat(attr, value) ==
    /\ stats' = [a \in DOMAIN stats \cup {attr} |->
                    IF a = attr THEN value ELSE stats[a]]
    /\ lastHack' = NoHack
    /\ UNCHANGED <<skill_data, behavior_data>>

\* BehaviorHandler.add(HackableBehavior(...))
behaviors_add(config) ==
    /\ behavior_data' = [hackable |-> config]
    /\ lastHack' = NoHack
    /\ UNCHANGED <<skill_data, stats>>

\* BehaviorHandler.remove('hackable')
behaviors_remove ==
    /\ IsHackable
    /\ behavior_data' = << >>
    /\ lastHack' = NoHack
    /\ UNCHANGED <<skill_data, stats>>

\* A character with an empty ledger and no ability set, a target with no
\* behavior.
InitHack ==
    /\ skill_data = << >>
    /\ stats = << >>
    /\ behavior_data = << >>
    /\ lastHack = NoHack


QuietHackOthers ==
    UNCHANGED <<dispatchVars, lightVars, airlockVars, wizardVars, otherVars>>

NextHack ==
    \/ \E skill_name \in SkillNames, difficulty \in Difficulties,
          attribute \in {None, "dex"}, modifiers \in ModifierSets :
          \E d1 \in Die, d2 \in Die :
             MakeSkillCheck(skill_name, difficulty, attribute, modifiers, d1, d2)
             /\ QuietHackOthers
    \/ \E d1 \in Die, d2 \in Die : AttemptHack(d1, d2) /\ QuietHackOthers
    \/ \E lucky \in BOOLEAN : HandleHackEvent(lucky) /\ QuietHackOthers
    \/ \E args \in BOOLEAN, found \in BOOLEAN, blocked \in BOOLEAN :
          CmdHack(args, found, blocked) /\ QuietHackOthers
    \/ \E level \in 0..MaxLevel : skills_add("Hack", level) /\ QuietHackOthers
    \/ skills_remove("Hack") /\ QuietHackOthers
    \/ \E attr \in Abilities : \E value \in StatValues(attr) :
          SetStat(attr, value) /\ QuietHackOthers
    \/ \E config \in HackableConfigs : behaviors_add(config) /\ QuietHackOthers
    \/ behaviors_remove /\ QuietHackOthers

(***************************************************************************)
(* The space room's environmental effect: typeclasses/rooms.py SpaceRoom   *)
(***************************************************************************)

MaxTicks == 3  \* runs of the environmental effect

\* The entities that may be inside the space room: an NPC and a player
\* character that take environmental damage, and a visitor (a plain
\* Character of typeclasses/characters.py) that has hit points but no
\* take_environmental_damage method.
SpaceEntities == {"thug", "pc", "visitor"}

\* "hasattr(obj, 'take_environmental_damage')"
HasDamageHandler(e) == e # "visitor"

\* The entity's environmental-damage handler: reduce the hit points by the
\* amount and flag death when they reach zero or below.
take_environmental_damage(o, amount) ==
    [o EXCEPT !.hp = @ - amount, !.is_dead = @ \/ (o.hp - amount <= 0)]

\* Mutant: life support is not looked at.
IgnoresLifeSupport(occ) ==
    [e \in SpaceEntities |->
        IF occ[e].inside /\ HasDamageHandler(e)
        THEN take_environmental_damage(occ[e], 2) ELSE occ[e]]

\* SpaceRoom.apply_environmental_effects: the entities afterwards
apply_environmental_effects(occ) ==
    [e \in SpaceEntities |->
        IF occ[e].inside /\ HasDamageHandler(e) /\ ~occ[e].has_life_support
        THEN take_environmental_damage(occ[e], 2) ELSE occ[e]]

\* SpaceEnvironmentScript.at_repeat
EnvironmentTick ==
    /\ nTicks < MaxTicks
    /\ nTicks' = nTicks + 1
    /\ occupants' = apply_environmental_effects(occupants)

\* An entity puts life support on or takes it off.
SetLifeSupport(e, flag) ==
    /\ occupants' = [occupants EXCEPT ![e].has_life_support = flag]
    /\ UNCHANGED nTicks

\* An entity enters or leaves the space room.
MoveSpace(e, inside) ==
    /\ occupants' = [occupants EXCEPT ![e].inside = inside]
    /\ UNCHANGED nTicks

\* Everybody is alive and outside, nobody has life support on; the hit
\* points are 1 (as in test_death_from_environment), 2, 3 or 5.
InitSpace ==
    /\ nTicks = 0
    /\ \E hit_points \in [SpaceEntities -> {1, 2, 3, 5}] :
          occupants = [e \in SpaceEntities |->
                          [hp |-> hit_points[e], is_dead |-> FALSE,
                           has_life_support |-> FALSE, inside |-> FALSE]]

QuietSpaceOthers ==
    UNCHANGED <<dispatchVars, lightVars, airlockVars, hackVars, wizardVars,
                utilVars, cmdVars, runnerVars, visionVars>>

NextSpace ==
    \/ EnvironmentTick /\ QuietSpaceOthers
    \/ \E e \in SpaceEntities, flag \in BOOLEAN :
          SetLifeSupport(e, flag) /\ QuietSpaceOthers
    \/ \E e \in SpaceEntities, inside \in BOOLEAN :
          MoveSpace(e, inside) /\ QuietSpaceOthers

(***************************************************************************)
(* Dice and character-stat utilities: world/utils.py                       *)
(***************************************************************************)

MaxLen == 5  \* characters in a dice string

\* The characters dice strings are made of here, and the digits among them.
Chars == {"0", "2", "d", "+", "-", "x"}

Digits == {"0", "2"}

\* The strings handed to roll_dice, as sequences of characters.
DiceStrings == UNION {[1..n -> Chars] : n \in 0..MaxLen}

RECURSIVE DigitRun(_, _)
\* "\d+", greedy: how many digits s has from position from on
DigitRun(s, from) ==
    IF from <= Len(s) /\ s[from] \in Digits
    THEN 1 + DigitRun(s, from + 1) ELSE 0

RECURSIVE ToInt(_, _, _)
\* int() of the n digits of s that start at position from
ToInt(s, from, n) ==
    IF n = 0 THEN 0
    ELSE 10 * ToInt(s, from, n - 1) + (IF s[from + n - 1] = "2" THEN 2 ELSE 0)

\* re.match(r"(\d+)d(\d+)([+-]\d+)?", dice_string) followed by the int()
\* conversions: the match is anchored at the start of the string only.
\* <<the numbers>>, or << >> when there is no match.
re_match(s) ==
    LET n1 == DigitRun(s, 1)
        n2 == DigitRun(s, n1 + 2)
        sign == n1 + n2 + 2
        n3 == IF sign <= Len(s) /\ s[sign] \in {"+", "-"}
              THEN DigitRun(s, sign + 1) ELSE 0
    IN  IF n1 >= 1 /\ n1 + 1 <= Len(s) /\ s[n1 + 1] = "d" /\ n2 >= 1
        THEN << [num_dice |-> ToInt(s, 1, n1),
                 dice_sides |-> ToInt(s, n1 + 2, n2),
                 modifier |-> IF n3 = 0 THEN 0
                              ELSE IF s[sign] = "-"
                                   THEN 0 - ToInt(s, sign + 1, n3)
                                   ELSE ToInt(s, sign + 1, n3)] >>
        ELSE << >>

\* roll_dice: every die shows the same face, the highest (high) or 1, so
\* that sum(rolls) is num_dice times that face. A ValueError comes from the
\* failed match, or from random.randint(1, 0).
roll_dice(dice_string, high) ==
    LET m == re_match(dice_string)
    IN  IF m = << >> \/ (m[1].num_dice > 0 /\ m[1].dice_sides < 1)
        THEN [ok |-> FALSE, error |-> "ValueError"]
        ELSE LET face == IF high THEN m[1].dice_sides ELSE 1
             IN  [ok |-> TRUE, rolls |-> [i \in 1..m[1].num_dice |-> face],
                  modifier |-> m[1].modifier,
                  total |-> m[1].num_dice * face + m[1].modifier]

\* The ability scores asked about: the 3d6 range and some beyond it.
Scores == 0..21

\* get_ability_modifier
get_ability_modifier(score) ==
    IF score <= 3 THEN 0 - 2
    ELSE IF score <= 7 THEN 0 - 1
    ELSE IF score <= 13 THEN 0
    ELSE IF score <= 17 THEN 1
    ELSE 2

\* calculate_saving_throws: class_saves
class_saves ==
    [Warrior |-> [Physical |-> 15, Evasion |-> 16, Mental |-> 16,
                  Tech |-> 17, Luck |-> 18],
     Expert |-> [Physical |-> 16, Evasion |-> 15, Mental |-> 15,
                 Tech |-> 14, Luck |-> 18],
     Psychic |-> [Physical |-> 16, Evasion |-> 16, Mental |-> 14,
                  Tech |-> 16, Luck |-> 18],
     Adventurer |-> [Physical |-> 16, Evasion |-> 16, Mental |-> 15,
                     Tech |-> 16, Luck |-> 18]]

\* The class names and stats handed to calculate_saving_throws.
SaveClasses == DOMAIN class_saves \cup {"Pilot"}

SaveStats == [{"STR", "DEX", "WIS", "INT"} -> {3, 10, 18}]

\* The saves dictionary calculate_saving_throws builds.
saves(char_class, stat_values) ==
    LET base_saves == IF char_class \in DOMAIN class_saves
                      THEN class_saves[char_class] ELSE class_saves["Expert"]
    IN  [Physical |-> base_saves.Physical - get_ability_modifier(stat_values["STR"]),
         Evasion |-> base_saves.Evasion - get_ability_modifier(stat_values["DEX"]),
         Mental |-> base_saves.Mental - get_ability_modifier(stat_values["WIS"]),
         Tech |-> base_saves.Tech - get_ability_modifier(stat_values["INT"]),
         Luck |-> base_saves.Luck]

\* calculate_saving_throws: <<the value returned>>, or << >> for None. The
\* function ends once it has built the saves dictionary, without a return
\* statement.
calculate_saving_throws(char_class, stat_values) ==
    IF saves(char_class, stat_values).Luck = 18 THEN << >> ELSE << >>

\* lastUtil when nothing has been called yet.
NoUtil == [op |-> "none", input |-> << >>, result |-> << >>]

\* The utilities are pure functions: one call is looked at, made on any of
\* the inputs.
RollDice(dice_string, high) ==
    /\ lastUtil = NoUtil
    /\ lastUtil' = [op |-> "roll_dice", input |-> dice_string,
                    result |-> roll_dice(dice_string, high)]

\* The two derivations of the ability modifier, asked about one score.
AbilityModifier(score) ==
    /\ lastUtil = NoUtil
    /\ lastUtil' = [op |-> "ability_modifier", input |-> score,
                    result |-> [get_ability_modifier |->
                                    <<get_ability_modifier(score)>>,
                                lookup |-> lookup_attribute_modifier(score)]]

CalculateSavingThrows(char_class, stat_values) ==
    /\ lastUtil = NoUtil
    /\ lastUtil' = [op |-> "calculate_saving_throws",
                    input |-> [char_class |-> char_class,
                               stats |-> stat_values],
                    result |-> calculate_saving_throws(char_class, stat_values)]

InitUtils == lastUtil = NoUtil

QuietUtilsOthers ==
    UNCHANGED <<dispatchVars, lightVars, airlockVars, hackVars, wizardVars,
                spaceVars, cmdVars, runnerVars, visionVars>>

NextUtils ==
    \/ \E dice_string \in DiceStrings, high \in BOOLEAN :
          RollDice(dice_string, high) /\ QuietUtilsOthers
    \/ \E score \in Scores : AbilityModifier(score) /\ QuietUtilsOthers
    \/ \E char_class \in SaveClasses, stat_values \in SaveStats :
          CalculateSavingThrows(char_class, stat_values) /\ QuietUtilsOthers

(***************************************************************************)
(* The lighting command: commands/lighting_commands.py CmdLighting         *)
(***************************************************************************)

MaxCmds == 3  \* lighting commands typed

\* The words typed where a number is expected, and int() of them:
\* <<the number>>, or << >> for a ValueError.
NumberWords == {"3", "-2", "x"}

int(word) ==
    CASE word = "3" -> <<3>>
      [] word = "-2" -> <<0 - 2>>
      [] OTHER -> << >>

\* self.args.strip().split(), for the command lines typed
CmdArgs ==
    {<< >>, <<"info">>, <<"set">>, <<"dim">>}
    \cup {<<"set", level>> : level \in NumberWords}
    \cup {<<"type", ty>> : ty \in LightingTypes \cup {"cave"}}
    \cup {<<"modifier", "storm", change>> : change \in NumberWords}
    \cup {<<"modifier", "storm", change, duration>> :
             change \in NumberWords, duration \in NumberWords}
    \cup {<<"remove", name>> : name \in {"storm", "fog"}}

UsageText == "Usage: lighting [info|set <level>|type <type>|modifier <name> <change> [duration]|remove <modifier>]"

DeniedText == "You don't have permission to modify lighting."

\* "if not caller.check_permstring("builders"): msg; return", then the rest
\* of a _set_* / _add_* / _remove_* method: the handler call it makes, if
\* any, and the message it sends.
BuildersOnly(is_builder, msg, call) ==
    IF is_builder THEN [call |-> call, msgs |-> <<msg>>, raised |-> FALSE]
    ELSE [call |-> << >>, msgs |-> <<DeniedText>>, raised |-> FALSE]

\* CmdLighting.func: the handler call made, the messages sent to the
\* caller, and whether an exception left the command.
lighting_command(args, is_builder) ==
    IF args = << >> \/ args[1] = "info"
    THEN [call |-> <<"info">>, msgs |-> <<"LIGHT INFORMATION">>, raised |-> FALSE]
    ELSE IF args[1] = "set" /\ Len(args) >= 2
    THEN IF int(args[2]) # << >>
         THEN BuildersOnly(is_builder, "Base light level set.",
                           <<"set", int(args[2])[1]>>)
         ELSE BuildersOnly(is_builder,
                           "Light level must be a number between 0 and 10.",
                           << >>)
    ELSE IF args[1] = "type" /\ Len(args) >= 2
    THEN IF args[2] \in {"indoor", "outdoor", "space", "underground"}
         THEN BuildersOnly(is_builder, "Lighting type set.", <<"type", args[2]>>)
         ELSE BuildersOnly(is_builder, "Invalid lighting type.", << >>)
    ELSE IF args[1] = "modifier" /\ Len(args) >= 3
    THEN IF Len(args) >= 4 /\ int(args[4]) = << >>
         THEN [call |-> << >>, msgs |-> << >>, raised |-> TRUE]
         ELSE IF int(args[3]) # << >>
         THEN BuildersOnly(is_builder, "Added lighting modifier.",
                           <<"modifier", args[2], int(args[3])[1],
                             IF Len(args) >= 4 THEN int(args[4])[1] ELSE 0>>)
         ELSE BuildersOnly(is_builder, "Light change must be a number.", << >>)
    ELSE IF args[1] = "remove" /\ Len(args) >= 2
    THEN BuildersOnly(is_builder, "Removed lighting modifier.",
                      <<"remove", args[2]>>)
    ELSE [call |-> << >>, msgs |-> <<UsageText>>, raised |-> FALSE]

\* The lighting command, typed by a builder or by somebody else.
CmdLighting(args, is_builder) ==
    LET out == lighting_command(args, is_builder)
    IN  /\ nCmds < MaxCmds
        /\ nCmds' = nCmds + 1
        /\ lastCmd' = [args |-> args, is_builder |-> is_builder,
                       msgs |-> out.msgs, raised |-> out.raised]
        /\ CASE out.call = << >> -> UNCHANGED lightVars
             [] out.call[1] = "info" -> ReadLight
             [] out.call[1] = "set" -> set_base_light_level(out.call[2])
             [] out.call[1] = "type" -> set_lighting_type(out.call[2])
             [] out.call[1] = "modifier" ->
                  add_light_modifier(out.call[2], out.call[3], out.call[4])
             [] out.call[1] = "remove" -> remove_light_modifier(out.call[2])

\* The clock moves on between two commands.
CmdWait(t) ==
    /\ AdvanceTime(t)
    /\ UNCHANGED <<nCmds, lastCmd>>

InitCmd ==
    /\ nCmds = 0
    /\ lastCmd = [args |-> << >>, is_builder |-> FALSE, msgs |-> << >>,
                  raised |-> FALSE]

QuietCmdOthers ==
    UNCHANGED <<dispatchVars, airlockVars, hackVars, wizardVars, spaceVars,
                utilVars, runnerVars, visionVars>>

NextCmd ==
    \/ \E args \in CmdArgs, is_builder \in BOOLEAN :
          CmdLighting(args, is_builder) /\ QuietCmdOthers
    \/ \E t \in Times : CmdWait(t) /\ QuietCmdOthers

(***************************************************************************)
(* The scenario test runner: world/e2e_test_runner.py                      *)
(***************************************************************************)

\* The objects setup_test_environment creates, in the order it creates them.
TestObjectOrder ==
    <<"dark_room", "airlock", "space", "airlock_exit", "space_exit",
      "goggles", "thug", "button">>

\* The steps of the scenario ("steps = [...]" has ten entries).
NumSteps == 10

\* The names of the first n test objects.
FirstObjects(n) == {TestObjectOrder[i] : i \in 1..n}

\* setup_test_environment, with create_object raising at the fail_at-th
\* creation (0: never): the objects created and tracked, and the value
\* returned.
setup_test_environment(fail_at) ==
    IF fail_at = 0
    THEN [created |-> FirstObjects(Len(TestObjectOrder)), ok |-> TRUE]
    ELSE [created |-> FirstObjects(fail_at - 1), ok |-> FALSE]

\* cleanup_test_environment on the tracked objects, with obj.delete()
\* raising at the fail_at-th object (0: never): the loop stops there, the
\* exception is logged and the map is not cleared.
cleanup_test_environment(tracked, fail_at) ==
    IF fail_at = 0 THEN [alive |-> {}, tracked |-> {}]
    ELSE [alive |-> tracked \ FirstObjects(fail_at - 1), tracked |-> tracked]

\* How a step may go: its check passes, its check fails, or the command
\* raises.
StepOutcomes == {"pass", "fail", "raise"}

\* execute_step: the record it appends to step_results. The except branch
\* records success False and the error text.
step_result(step_num, outcome) ==
    [step |-> step_num, success |-> outcome = "pass",
     error |-> IF outcome = "raise" THEN "str(e)" ELSE None]

\* "for step_data in steps: if self.execute_step(*step_data): ..." on a
\* runner whose step_results is results: the list afterwards.
execute_steps(results, outcomes) ==
    results \o [i \in 1..NumSteps |-> step_result(i, outcomes[i])]

\* generate_test_report: "for result in self.step_results" gives one line
\* per record the list holds, under the totals of this run.
generate_test_report(results, passed, total) ==
    [total |-> total, passed |-> passed, lines |-> results]

\* lastRun before the runner has run.
NoRun == [op |-> "none", returned |-> "None", report |-> << >>]

\* E2ETestRunner.run_full_scenario: setup, prepare_test_character (which
\* may raise), the ten steps (each passes, fails or raises; an exception in
\* a step is caught and counts as a failure), the report, cleanup, and the
\* result. The runner keeps test_objects and step_results from one run to
\* the next.
run_full_scenario(setup_fail_at, prepare_raises, outcomes, delete_fail_at) ==
    LET setup == setup_test_environment(setup_fail_at)
        tracked == test_objects \cup setup.created
        cleaned == cleanup_test_environment(tracked, delete_fail_at)
        results == execute_steps(step_results, outcomes)
        passed_steps == Cardinality({i \in 1..NumSteps : outcomes[i] = "pass"})
    IN  IF ~setup.ok
        THEN /\ test_objects' = tracked
             /\ alive' = alive \cup setup.created
             /\ step_results' = step_results
             /\ lastRun' = [op |-> "run_full_scenario", returned |-> "False",
                            report |-> << >>]
        ELSE IF prepare_raises
        THEN /\ test_objects' = tracked
             /\ alive' = alive \cup setup.created
             /\ step_results' = step_results
             /\ lastRun' = [op |-> "run_full_scenario", returned |-> "raised",
                            report |-> << >>]
        ELSE /\ test_objects' = cleaned.tracked
             /\ alive' = (alive \ tracked) \cup cleaned.alive
             /\ step_results' = results
             /\ lastRun' = [op |-> "run_full_scenario",
                            returned |-> IF passed_steps = NumSteps
                                         THEN "True" ELSE "False",
                            report |-> <<generate_test_report(
                                            results, passed_steps, NumSteps)>>]

\* "self.test_objects = {}", "self.step_results = []"
InitRunner ==
    /\ test_objects = {}
    /\ alive = {}
    /\ step_results = << >>
    /\ lastRun = NoRun

QuietRunnerOthers ==
    UNCHANGED <<dispatchVars, lightVars, airlockVars, hackVars, wizardVars,
                spaceVars, utilVars, cmdVars, visionVars>>

\* One run of the scenario is looked at, on a runner that has not run yet.
NextRunner ==
    /\ lastRun = NoRun
    /\ \E setup_fail_at \in 0..Len(TestObjectOrder), prepare_raises \in BOOLEAN,
          successes \in [1..NumSteps -> BOOLEAN],
          delete_fail_at \in 0..Len(TestObjectOrder) :
             run_full_scenario(setup_fail_at, prepare_raises,
                               [i \in 1..NumSteps |->
                                   IF successes[i] THEN "pass" ELSE "fail"],
                               delete_fail_at)
    /\ QuietRunnerOthers

\* ---- bound of the repeated runs ----
MaxRuns == 2         \* runs of the scenario that execute their steps

\* The ways a run's steps go that are looked at: all pass, or one step
\* fails its check or raises and the others pass.
OutcomePatterns ==
    {[i \in 1..NumSteps |-> "pass"]}
    \cup {[i \in 1..NumSteps |-> IF i = k THEN o ELSE "pass"] :
             k \in 1..NumSteps, o \in StepOutcomes \ {"pass"}}

\* The module's one runner ("test_runner = E2ETestRunner()") runs the
\* scenario, and runs it again.
RunAgain(setup_fail_at, prepare_raises, outcomes) ==
    /\ Len(step_results) + NumSteps <= MaxRuns * NumSteps
    /\ run_full_scenario(setup_fail_at, prepare_raises, outcomes, 0)

NextReport ==
    \E setup_fail_at \in {0, 1}, prepare_raises \in BOOLEAN,
       outcomes \in OutcomePatterns :
          RunAgain(setup_fail_at, prepare_raises, outcomes) /\ QuietRunnerOthers

(***************************************************************************)
(* Night-vision items: world/lighting.py NightVisionBehavior, and the use  *)
(* command of commands/lighting_commands.py                                *)
(***************************************************************************)

\* Two characters with an equipment handler (the tests' char1) and one
\* without: typeclasses/characters.py gives a Character skills and nothing
\* else.
VisionChars == {"pc", "mate", "bare"}

\* hasattr(user, 'equipment')
HasEquipment(c) == c # "bare"

Slots == {"head", "hand"}

\* Goggles built as NightVisionBehavior(battery_life=100,
\* equipment_slot="head") and a pair whose battery is flat.
VisionItems == {"goggles", "spent"}

battery_life(item) == IF item = "goggles" THEN 100 ELSE 0

equipment_slot(item) == "head"

\* user.equipment.get_slot(slot)
get_slot(c, slot) == equipment[c][slot]

DeadBatteryText == "The {obj.name}'s battery is dead."

NotWornText == "You must be wearing the {obj.name} to use it."

ActivatedText ==
    "The {obj.name} activates with a soft hum. Everything takes on a green tint."

DeactivatedText == "The {obj.name} powers down. The green tint fades."

\* Mutant: the item works in any hands, worn or not.
ActivatesUnworn(item, user) ==
    IF battery_life(item) <= 0
    THEN [ok |-> FALSE, msg |-> DeadBatteryText]
    ELSE [ok |-> TRUE, msg |-> ActivatedText]

\* NightVisionBehavior.activate(obj, user): the pair it returns; on True it
\* has set user.db.night_vision_active and self.is_active.
nv_activate(item, user) ==
    IF battery_life(item) <= 0
    THEN [ok |-> FALSE, msg |-> DeadBatteryText]
    ELSE IF HasEquipment(user) /\ get_slot(user, equipment_slot(item)) # item
    THEN [ok |-> FALSE, msg |-> NotWornText]
    ELSE [ok |-> TRUE, msg |-> ActivatedText]

\* lastUse before anything was used.
NoUse == [op |-> "none", item |-> None, user |-> None, ok |-> FALSE,
          msg |-> ""]

\* CmdUse._use_vision_enhancement (and NightVisionBehavior.handle_event on a
\* "use" event): an active behavior is deactivated, an inactive one
\* activated, for the caller; caller.search finds what the caller carries.
Use(user, item) ==
    /\ holder[item] = user
    /\ IF nv_is_active[item]
       THEN \* deactivate(obj, user): "user.db.night_vision_active = False",
            \* "self.is_active = False"
            /\ night_vision_active' = [night_vision_active EXCEPT ![user] = FALSE]
            /\ nv_is_active' = [nv_is_active EXCEPT ![item] = FALSE]
            /\ activated_by' = [activated_by EXCEPT ![item] = None]
            /\ lastUse' = [op |-> "deactivate", item |-> item, user |-> user,
                           ok |-> TRUE, msg |-> DeactivatedText]
       ELSE LET out == nv_activate(item, user)
            IN  /\ night_vision_active' =
                      IF out.ok THEN [night_vision_active EXCEPT ![user] = TRUE]
                      ELSE night_vision_active
                /\ nv_is_active' =
                      IF out.ok THEN [nv_is_active EXCEPT ![item] = TRUE]
                      ELSE nv_is_active
                /\ activated_by' =
                      IF out.ok THEN [activated_by EXCEPT ![item] = user]
                      ELSE activated_by
                /\ lastUse' = [op |-> "activate", item |-> item, user |-> user,
                               ok |-> out.ok, msg |-> out.msg]
    /\ UNCHANGED <<holder, equipment>>

\* The equipment of every character without the item.
Unworn(item) ==
    [c \in DOMAIN equipment |->
        [slot \in Slots |-> IF equipment[c][slot] = item THEN None
                            ELSE equipment[c][slot]]]

\* user.equipment.wear(item, slot): get_slot(slot) is the item afterwards.
Wear(user, item, slot) ==
    /\ HasEquipment(user)
    /\ holder[item] = user
    /\ equipment' = [Unworn(item) EXCEPT ![user][slot] = item]
    /\ lastUse' = NoUse
    /\ UNCHANGED <<holder, nv_is_active, night_vision_active, activated_by>>

\* The item changes hands (item.move_to(character)): nobody wears it then.
Give(item, to) ==
    /\ holder[item] # to
    /\ holder' = [holder EXCEPT ![item] = to]
    /\ equipment' = Unworn(item)
    /\ lastUse' = NoUse
    /\ UNCHANGED <<nv_is_active, night_vision_active, activated_by>>

\* "self.is_active = False" at construction; nobody's flag is set and
\* nothing is worn.
InitVision ==
    /\ holder = [item \in VisionItems |-> "pc"]
    /\ equipment = [c \in {u \in VisionChars : HasEquipment(u)} |->
                       [slot \in Slots |-> None]]
    /\ nv_is_active = [item \in VisionItems |-> FALSE]
    /\ night_vision_active = [c \in VisionChars |-> FALSE]
    /\ activated_by = [item \in VisionItems |-> None]
    /\ lastUse = NoUse

QuietVisionOthers ==
    UNCHANGED <<dispatchVars, lightVars, airlockVars, hackVars, wizardVars,
                spaceVars, utilVars, cmdVars, runnerVars>>

NextVision ==
    \/ \E user \in VisionChars, item \in VisionItems :
          Use(user, item) /\ QuietVisionOthers
    \/ \E user \in VisionChars, item \in VisionItems, slot \in Slots :
          Wear(user, item, slot) /\ QuietVisionOthers
    \/ \E item \in VisionItems, to \in VisionChars :
          Give(item, to) /\ QuietVisionOthers

\* Every other specification leaves the space room alone, holding entities
\* with 5 hit points.
QuietSpace ==
    /\ nTicks = 0
    /\ occupants = [e \in SpaceEntities |->
                       [hp |-> 5, is_dead |-> FALSE,
                        has_life_support |-> FALSE, inside |-> FALSE]]

\* Every other specification leaves skills, hacking, the wizard, the space
\* room and the utilities alone.
QuietOther == QuietSpace /\ InitUtils /\ InitCmd /\ InitRunner /\ InitVision

QuietRest == InitHack /\ InitWizard /\ QuietOther

NextAirlock ==
    \/ cycle_airlock /\ UNCHANGED <<dispatchVars, restVars>>
    \/ \E i \in 1..MaxCalls : FireTimer(i) /\ UNCHANGED <<dispatchVars, restVars>>
    \/ Tick /\ UNCHANGED <<dispatchVars, restVars>>
    \/ \E r \in {"airlock", "hall"} : MovePlayer(r) /\ UNCHANGED <<dispatchVars, restVars>>

InitAirlockWorld == QuietDispatch /\ InitAirlock /\ QuietRest

SpecAirlock == InitAirlockWorld /\ [][NextAirlock]_vars

\* A cycle_airlock() call made early enough for its warning delay and its
\* cycle to end before the clock of the model stops.
EarlyCycleCall ==
    /\ now + WarningDelay + cycle_time <= MaxTime
    /\ cycle_airlock

\* The host fires a scheduled callback that is due.
FireDue == \E i \in 1..MaxCalls : FireTimer(i) /\ UNCHANGED <<dispatchVars, restVars>>

\* Time passes.
TimePasses == Tick /\ UNCHANGED <<dispatchVars, restVars>>

NextAirlockLive ==
    \/ EarlyCycleCall /\ UNCHANGED <<dispatchVars, restVars>>
    \/ FireDue
    \/ TimePasses
    \/ \E r \in {"airlock", "hall"} : MovePlayer(r) /\ UNCHANGED <<dispatchVars, restVars>>

\* The inner door leads to the corridor; the outer door leads to open space
\* or, in a station built wrongly, back inside.
InitAirlockLiveWorld ==
    /\ QuietDispatch
    /\ InitAirlock
    /\ exitDest["inner door"] = "hall"
    /\ QuietRest

\* The airlock under a host that lets time pass and runs every delay()
\* callback when it is due.
SpecAirlockLive ==
    /\ InitAirlockLiveWorld
    /\ [][NextAirlockLive]_vars
    /\ WF_vars(FireDue)
    /\ WF_vars(TimePasses)

QuietAirlock ==
    /\ location = << >>
    /\ exitDest = << >>
    /\ is_cycling = FALSE
    /\ timers = << >>
    /\ nCalls = 0
    /\ lastCall = NoCall

QuietOthers == UNCHANGED <<dispatchVars, airlockVars, restVars>>

NextLighting ==
    \/ ReadLight /\ QuietOthers
    \/ \E vision_type \in VisionTypes : return_appearance(vision_type) /\ QuietOthers
    \/ \E level \in LevelInputs : set_base_light_level(level) /\ QuietOthers
    \/ \E ty \in LightingTypes : set_lighting_type(ty) /\ QuietOthers
    \/ \E name \in UsedModNames, duration \in Durations :
          \E change \in Changes(name) :
             add_light_modifier(name, change, duration) /\ QuietOthers
    \/ \E name \in UsedModNames : remove_light_modifier(name) /\ QuietOthers
    \/ \E s \in Sources : activate(s) /\ QuietOthers
    \/ \E s \in Sources : deactivate(s) /\ QuietOthers
    \/ \E s \in Sources : \E amount \in DrainAmounts(s) :
          consume_fuel(s, amount) /\ QuietOthers
    \/ \E t \in Times : AdvanceTime(t) /\ QuietOthers

\* A day and more of game time: the clock is read at the first and at the
\* last second of every hour up to MaxHour, past midnight.
MaxHour == 25

HourTimes == {h * 3600 + s : h \in 0..MaxHour, s \in {0, 3599}}

\* A room under the sky: its base level and type are set, the clock moves
\* on by hours and the light level is read.
NextDay ==
    \/ ReadLight /\ QuietOthers
    \/ \E level \in {2, 9} : set_base_light_level(level) /\ QuietOthers
    \/ \E ty \in LightingTypes : set_lighting_type(ty) /\ QuietOthers
    \/ \E t \in HourTimes : AdvanceTime(t) /\ QuietOthers

\* What one consume_fuel call may take in the life of a light source: 1
\* (the default, and what the fuel burn script takes every minute), half of
\* what a full source holds, or more than all of it.
SourceDrains(s) == {1, FullAmount(s) \div 2, FullAmount(s) + 1}

\* The life of the light sources of a room: they are switched on and off
\* and burn down, and the room's light is read.
NextSource ==
    \/ ReadLight /\ QuietOthers
    \/ \E s \in Sources : activate(s) /\ QuietOthers
    \/ \E s \in Sources : deactivate(s) /\ QuietOthers
    \/ \E s \in Sources : \E amount \in SourceDrains(s) :
          consume_fuel(s, amount) /\ QuietOthers

InitLightingWorld == QuietDispatch /\ InitLighting /\ QuietAirlock /\ QuietRest

SpecLighting == InitLightingWorld /\ [][NextLighting]_vars

SpecDay == InitLightingWorld /\ [][NextDay]_vars

SpecSource == InitLightingWorld /\ [][NextSource]_vars

InitDispatchWorld == InitDispatch /\ InitLighting /\ QuietAirlock /\ QuietRest

SpecDispatch == InitDispatchWorld /\ [][NextDispatch]_vars

InitHackWorld ==
    QuietDispatch /\ InitLighting /\ QuietAirlock /\ InitHack /\ InitWizard
    /\ QuietOther

SpecHack == InitHackWorld /\ [][NextHack]_vars

InitWizardWorld ==
    QuietDispatch /\ InitLighting /\ QuietAirlock /\ InitHack /\ InitWizard
    /\ QuietOther

SpecWizard == InitWizardWorld /\ [][NextWizard]_vars

InitSpaceWorld ==
    QuietDispatch /\ InitLighting /\ QuietAirlock /\ InitHack /\ InitWizard
    /\ InitSpace /\ InitUtils /\ InitCmd /\ InitRunner /\ InitVision

SpecSpace == InitSpaceWorld /\ [][NextSpace]_vars

InitUtilsWorld ==
    QuietDispatch /\ InitLighting /\ QuietAirlock /\ InitHack /\ InitWizard
    /\ QuietSpace /\ InitUtils /\ InitCmd /\ InitRunner /\ InitVision

SpecUtils == InitUtilsWorld /\ [][NextUtils]_vars

InitCmdWorld ==
    QuietDispatch /\ InitLighting /\ QuietAirlock /\ InitHack /\ InitWizard
    /\ QuietSpace /\ InitUtils /\ InitCmd /\ InitRunner /\ InitVision

SpecCmd == InitCmdWorld /\ [][NextCmd]_vars

SpecRunner == InitCmdWorld /\ [][NextRunner]_vars

SpecVision == InitCmdWorld /\ [][NextVision]_vars

SpecReport == InitCmdWorld /\ [][NextReport]_vars

\* The whole game: any subsystem may take the next step.
Init == InitDispatch /\ InitAirlock /\ QuietRest

Next ==
    NextDispatch \/ NextLighting \/ NextAirlock \/ NextHack \/ NextWizard
    \/ NextSpace \/ NextUtils \/ NextCmd \/ NextRunner \/ NextVision

Spec == Init /\ [][Next]_vars

(***************************************************************************)
(* Properties of the event dispatcher                                      *)
(***************************************************************************)

\* The order of hook invocations as the specification words it.
ClaimedOrder ==
    << <<"at_pre_event", "source">>, <<"at_pre_event", "location">>,
       <<"at_pre_event", "target">>,
       <<"handle_event", "source">>, <<"handle_event", "location">>,
       <<"handle_event", "target">>,
       <<"at_post_event", "source">>, <<"at_post_event", "location">>,
       <<"at_post_event", "target">> >>

RoleEntity(role) ==
    IF role = "source" THEN evSource
    ELSE IF role = "target" THEN evTarget
    ELSE IF evSource = "room" THEN None ELSE "room"

Implemented(i) ==
    LET e == RoleEntity(ClaimedOrder[i][2])
    IN  e # None /\ ClaimedOrder[i][1] \in hooks[e]

\* The invocations the first k entries of ClaimedOrder give for the current
\* event: the entries whose addressee lacks the hook are left out.
ExpectedCalls(k) ==
    LET idx == SelectSeq([i \in 1..k |-> i], Implemented)
    IN  [j \in 1..Len(idx) |->
            <<ClaimedOrder[idx[j]][1], ClaimedOrder[idx[j]][2],
              RoleEntity(ClaimedOrder[idx[j]][2])>>]

\* C6: at every point of a dispatch the hooks invoked so far are, in order,
\* the implemented ones among pre(source), pre(location), pre(target),
\* handle(source), handle(location), handle(target), post(source),
\* post(location), post(target); the event is echoed to the source exactly
\* once, and only after the last hook.
C6_DispatchOrder ==
    pc # Idle =>
        /\ calls = ExpectedCalls(Min(pc - FirstPc, Len(ClaimedOrder)))
        /\ echoes = IF pc = ReturnedPc THEN 1 ELSE 0

\* C6 witness: a dispatch has returned in which source, location and target
\* are three entities and all nine hooks ran.
C6_Witness ==
    /\ pc = ReturnedPc
    /\ evSource = "char" /\ evTarget = "term"
    /\ Len(calls) = 9
    /\ echoes = 1

\* C7: a context that a hook has cancelled stays cancelled, the dispatch of
\* a cancelled event still visits every implemented hook in the same order,
\* and the echo to the source still happens.
C7_CancelDoesNotStop ==
    /\ cancelledAt # Idle => Cancelled
    /\ (pc # Idle /\ Cancelled /\ pc # ReturnedPc) =>
           Len(calls) = Len(ExpectedCalls(Min(pc - FirstPc, Len(ClaimedOrder))))
    /\ (Cancelled /\ pc = ReturnedPc) =>
           /\ calls = ExpectedCalls(Len(ClaimedOrder))
           /\ echoes = 1

\* C7 witness: the very first hook cancelled the event, and the dispatch
\* returned after running all nine hooks and the echo.
C7_Witness ==
    /\ pc = ReturnedPc
    /\ cancelledAt = FirstPc
    /\ Cancelled
    /\ Len(calls) = 9
    /\ echoes = 1

\* C8 (as claimed): an event created without an explicit context starts
\* with cancelled = false, whatever happened to earlier events.
C8_StartsUncancelled ==
    (pc # Idle /\ evContext = "default") => ~startedCancelled

(***************************************************************************)
(* Properties of the lighting handler                                      *)
(***************************************************************************)

\* C9: in every reachable state get_current_light_level() would return a
\* value in 0..10, and every value it did return was in 0..10.
C9_LightLevelInRange ==
    /\ get_current_light_level(base_light_level, light_modifiers, lighting_type,
                               srcActive, srcAmount, now) \in 0..10
    /\ lastOp.level # NoOp.level => lastOp.level \in 0..10

\* C9 witnesses: a read has just returned 0 for a sum below 0.
C9_Witness ==
    /\ lastOp.op = "read"
    /\ lastOp.level = 0
    /\ total_light(base_light_level, light_modifiers, lighting_type,
                   srcActive, srcAmount, now) < 0

\* The modifiers a read at time t is claimed to count: those without an
\* expiry and those whose expires_at is not earlier than t.
ClaimedLive(lm, t) ==
    {n \in DOMAIN lm : "expires_at" \notin DOMAIN lm[n] \/ ~(lm[n].expires_at < t)}

\* C10: a read at game time t returns the clamped sum that counts exactly
\* the modifiers with no expiry or with expires_at not earlier than t; after
\* any operation that read the level the persisted light_modifiers hold no
\* entry with expires_at earlier than t; a read purges no modifier that has
\* no expiry.
C10_LazyExpiry ==
    [][ /\ lastOp'.op = "read" =>
            /\ lastOp'.level =
                 Clamp(base_light_level
                       + calculate_light_sources(srcActive, srcAmount)
                       + SumOver([n \in ClaimedLive(light_modifiers, now) |->
                                     light_modifiers[n].light_change],
                                 ClaimedLive(light_modifiers, now))
                       + calculate_environmental_lighting(lighting_type, now))
            /\ \A n \in DOMAIN light_modifiers :
                 "expires_at" \notin DOMAIN light_modifiers[n] =>
                     /\ n \in DOMAIN light_modifiers'
                     /\ n \in DOMAIN db_lighting'.light_modifiers
                     /\ db_lighting'.light_modifiers[n] = light_modifiers[n]
        /\ lastOp'.op \in {"read", "mutator", "source"} =>
            \A n \in DOMAIN db_lighting'.light_modifiers :
                "expires_at" \in DOMAIN db_lighting'.light_modifiers[n] =>
                    ~(db_lighting'.light_modifiers[n].expires_at < now')
      ]_vars

\* C10 witness: a read has just purged an expired modifier and kept one
\* whose expiry time is exactly the time of the read.
C10_Witness ==
    /\ lastOp.op = "read"
    /\ lastOp.expired # {}
    /\ \E n \in DOMAIN db_lighting.light_modifiers :
          /\ "expires_at" \in DOMAIN db_lighting.light_modifiers[n]
          /\ db_lighting.light_modifiers[n].expires_at = now

\* The effective light level of the room in the current state.
EffectiveLevel ==
    get_current_light_level(base_light_level, light_modifiers, lighting_type,
                            srcActive, srcAmount, now)

\* What a completed mutator call leaves behind: the attributes hold the
\* handler's state and one lighting_change event from the room to the room
\* was raised, carrying the effective light level after the mutation.
SavedAndRaisedOne ==
    /\ db_lighting = Saved(base_light_level, light_modifiers, lighting_type)
    /\ Len(lastOp.events) = 1
    /\ lastOp.events[1].event_type = "lighting_change"
    /\ lastOp.events[1].source = "room"
    /\ lastOp.events[1].target = "room"
    /\ lastOp.events[1].new_light_level = EffectiveLevel

\* C11 as stated: every call of set_base_light_level, set_lighting_type,
\* add_light_modifier or remove_light_modifier persists the lighting state
\* and raises exactly one lighting_change event (source = target = the room)
\* whose new_light_level is the effective light level after the mutation.
C11_EveryMutatorCall ==
    lastOp.op \in {"mutator", "absent"} => SavedAndRaisedOne

\* C11 amended: the same for every call of set_base_light_level,
\* set_lighting_type and add_light_modifier and for every call of
\* remove_light_modifier that names a modifier the room holds; a
\* remove_light_modifier call naming a modifier the room does not hold
\* raises no event.
C11_MutatorSavesAndRaises ==
    /\ lastOp.op = "mutator" => SavedAndRaisedOne
    /\ lastOp.op = "absent" => lastOp.events = <<>>

\* C11 witness: a mutator has just run at a time when another modifier had
\* expired, so the level it reported was computed after a purge.
C11_Witness ==
    /\ lastOp.op = "mutator"
    /\ lastOp.expired # {}
    /\ Len(lastOp.events) = 1
    /\ lastOp.events[1].new_light_level \in 1..9

\* C12: when a lighting mutator changes the room's effective light level by
\* 2 or more the room tells its contents "The area becomes brighter." if the
\* level rose and "The area becomes darker." if it fell; a change of less
\* than 2 produces no narration.
C12_NarratesBigChanges ==
    [][ lastOp'.op = "mutator" =>
          LET old == EffectiveLevel
              new == lastOp'.level
              said == {lastOp'.told[i] : i \in 1..Len(lastOp'.told)}
          IN  /\ new - old >= 2 => "The area becomes brighter." \in said
              /\ old - new >= 2 => "The area becomes darker." \in said
              /\ Abs(new - old) < 2 => said = {}
      ]_vars

\* The tier and tag the visibility table gives for a light level and a
\* vision type.
ClaimedVisibility(light, vision) ==
    CASE light \in 7..10 -> <<"bright", "">>
      [] light \in 4..6 -> <<"normal", "">>
      [] light \in 1..3 /\ vision = "night_vision" -> <<"night_vision", "|g">>
      [] light \in 1..3 /\ vision = "low_light" -> <<"dim", "|y">>
      [] light \in 1..3 /\ vision \notin {"night_vision", "low_light"} -> <<"dark", "">>
      [] light = 0 /\ vision = "night_vision" -> <<"night_vision", "|g">>
      [] light = 0 /\ vision # "night_vision" -> <<"too_dark", "">>

ClaimedAdjustment(hour) ==
    IF hour \in 6..18 THEN 3
    ELSE IF hour = 5 \/ hour \in 19..21 THEN 0 - 1
    ELSE 0 - 4

\* The hour 0..23 the game clock shows: floor(game_time / 3600) mod 24.
HourOfDay ==
    CHOOSE hour \in 0..23 :
        \E day \in 0..(MaxHour \div 24 + 1) :
            /\ (day * 24 + hour) * 3600 <= now
            /\ now < (day * 24 + hour + 1) * 3600

\* C29: for an outdoor room the environmental adjustment depends only on
\* the hour of the day: +3 for hours 6..18, -1 for hour 5 and hours 19..21,
\* -4 for every other hour; without sources and modifiers the level read
\* is the base level plus that, within 0..10: 5 at hour 12 and 0 at hour 2
\* for base level 2.
C29_OutdoorByHour ==
    (lastOp.op = "read" /\ lighting_type = "outdoor") =>
        /\ lastOp.level =
              Max(0, Min(10, base_light_level + ClaimedAdjustment(HourOfDay)))
        /\ (base_light_level = 2 /\ HourOfDay = 12) => lastOp.level = 5
        /\ (base_light_level = 2 /\ HourOfDay = 2) => lastOp.level = 0

\* An outdoor room with base level 2 is read at two in the morning of the
\* second day: the level is 0.
C29_Witness ==
    /\ lastOp.op = "read"
    /\ lighting_type = "outdoor"
    /\ base_light_level = 2
    /\ now = 26 * 3600 - 1
    /\ lastOp.level = 0

IsActivate == lastOp'.reply # <<>> /\ lastOp'.reply[1] = "activate"

\* C30: whatever activate, deactivate, consume_fuel and get_light_output
\* calls were made on the light sources, a source's fuel or battery never
\* goes below 0 and a source left with 0 gives no light: it is inactive,
\* get_light_output returns 0 for it and leaves it inactive, activate on it
\* fails with the no-fuel (fuel) or dead-battery (battery) message and sets
\* nothing, and a consume_fuel call that brings the amount to 0 leaves the
\* source deactivated.
C30_DepletedNeverLit ==
    [][ /\ \A s \in Sources :
             /\ srcAmount'[s] >= 0
             /\ srcAmount'[s] = 0 =>
                   /\ ~srcActive'[s]
                   /\ \A active \in BOOLEAN :
                         /\ light_output(s, active, srcAmount'[s]) = 0
                         /\ ~active_after_output(active, srcAmount'[s])
             /\ (srcAmount[s] > 0 /\ srcAmount'[s] = 0) => ~srcActive'[s]
        /\ (IsActivate /\ srcAmount[lastOp'.reply[2]] = 0) =>
             /\ lastOp'.reply[3] = FALSE
             /\ lastOp'.reply[4] =
                   (IF lastOp'.reply[2] = "torch"
                    THEN "The {obj.name} has no fuel remaining."
                    ELSE "The {obj.name}'s battery is dead.")
             /\ srcActive' = srcActive
             /\ srcAmount' = srcAmount
      ]_vars

\* The burnt-out torch was tried and refused while the flashlight, half
\* drained, is still on.
C30_Witness ==
    /\ lastOp.reply = <<"activate", "torch", FALSE,
                        "The {obj.name} has no fuel remaining.">>
    /\ srcAmount["torch"] = 0
    /\ ~srcActive["torch"]
    /\ srcActive["flashlight"]
    /\ srcAmount["flashlight"] = FullAmount("flashlight") \div 2

(***************************************************************************)
(* Properties of night-vision items                                        *)
(***************************************************************************)

\* The user wears the item in the slot the item is made for.
WornInSlot(user, item) ==
    IF HasEquipment(user) THEN equipment[user][equipment_slot(item)] = item
    ELSE FALSE

\* C31: NightVisionBehavior.activate fails, leaving the behavior inactive
\* and the user's night_vision_active flag as it was, whenever the battery
\* is 0 or the user does not wear the item in its designated slot; it sets
\* the flag only when the item is worn in that slot and the battery is
\* above 0.
C31_ActivateNeedsBatteryAndSlot ==
    [][ lastUse'.op = "activate" =>
          LET item == lastUse'.item
              user == lastUse'.user
              fit == battery_life(item) > 0 /\ WornInSlot(user, item)
          IN  /\ ~fit => /\ ~lastUse'.ok
                         /\ ~nv_is_active'[item]
                         /\ night_vision_active' = night_vision_active
              /\ night_vision_active'[user] # night_vision_active[user] => fit
      ]_vars

\* C39: whatever items were used, worn and handed on, a character's
\* night_vision_active flag is set only if a night-vision behavior that
\* this character switched on is still active.
C39_FlagMeansOwnActiveItem ==
    \A c \in VisionChars :
        night_vision_active[c] =>
            \E item \in VisionItems :
                nv_is_active[item] /\ activated_by[item] = c

(***************************************************************************)
(* Properties of skills and hacking                                        *)
(***************************************************************************)

\* C14: when a HackableBehavior receives a "hack" event the outcome is the
\* one the Hacking Resolver computes for some throw of the dice (a 2d6 check
\* of the hacker's Hack skill against the behavior's difficulty, with
\* modifier -(security_level - 1) * 2): the same messages, and
\* context.cancelled true iff that check failed.
C14_DelegatesToResolver ==
    lastHack.op = "handle_hack_event" =>
        \E d1 \in Die, d2 \in Die :
            LET resolved == attempt_hack_outcome(lastHack.args, d1, d2)
            IN  /\ lastHack.cancelled = ~resolved.result.success
                /\ lastHack.hacker_msgs = resolved.hacker_msgs
                /\ lastHack.target_msgs = resolved.target_msgs

\* C15: the hack command dispatches a "hack" event iff the named target is
\* found and carries a Hackable Behavior, whatever the caller's training;
\* for a found target without the behavior the reply is "<target> is not
\* hackable." and nothing is dispatched.
C15_DispatchIffHackable ==
    (lastHack.op = "hack" /\ lastHack.args.named) =>
        /\ lastHack.dispatched <=> (lastHack.args.found /\ IsHackable)
        /\ (lastHack.args.found /\ ~IsHackable) =>
               lastHack.hacker_msgs = <<"<target> is not hackable.">>

\* C16: make_skill_check returns roll in 2..12, skill_level the ledger
\* level (0 if untrained), difficulty_modifier the sum of the modifiers,
\* total_modifier = skill_level + attribute_modifier + difficulty_modifier,
\* margin = roll + total_modifier - difficulty, success iff margin >= 0.
C16_SkillCheckArithmetic ==
    lastHack.op = "make_skill_check" =>
        LET r == lastHack.result
            a == lastHack.args
        IN  /\ r.roll \in 2..12
            /\ r.skill_level = IF a.skill_name \in DOMAIN skill_data
                               THEN skill_data[a.skill_name] ELSE 0
            /\ r.difficulty_modifier = SumOver(a.modifiers, DOMAIN a.modifiers)
            /\ r.total_modifier =
                  r.skill_level + r.attribute_modifier + r.difficulty_modifier
            /\ r.margin = r.roll + r.total_modifier - a.difficulty
            /\ r.success <=> r.margin >= 0

\* C16 witness: a trained check that met the difficulty exactly, with
\* modifiers that cancel out (skill 2, Intelligence 14, roll 7 against 10).
C16_Witness ==
    /\ lastHack.op = "make_skill_check"
    /\ lastHack.args.skill_name = "Hack"
    /\ lastHack.args.modifiers = [tools |-> 2, rushed |-> 0 - 2]
    /\ lastHack.result.skill_level = 2
    /\ lastHack.result.attribute_modifier = 1
    /\ lastHack.result.roll = 7
    /\ lastHack.result.margin = 0
    /\ lastHack.result.success

\* C17: after a hack attempt resolved by the Hacking Resolver the target
\* receives a message iff the hack succeeded with margin below 3 or failed
\* with margin at or below -3.
C17_TargetToldWhenNoticed ==
    lastHack.op = "attempt_hack" =>
        LET r == lastHack.result
        IN  (lastHack.target_msgs # << >>) <=>
                \/ r.success /\ r.margin < 3
                \/ ~r.success /\ r.margin <= 0 - 3

(***************************************************************************)
(* Properties of the character generation wizard                           *)
(***************************************************************************)

\* C18: whatever wizard node the player leaves the menu session at,
\* re-invoking charcreate opens the wizard at that same node; after start
\* then Next it opens at background, not start.
C18_ResumesWhereLeft ==
    (lastWiz.op = "charcreate" /\ lastWiz.ended = "quit") =>
        menuNode = lastWiz.from

\* A step in which the player chooses Abort.
IsAbort == menuNode # None /\ lastWiz'.op = "abort"

\* A step in which charcreate is re-invoked after an abort.
IsReentryAfterAbort == lastWiz.op = "abort" /\ lastWiz'.op = "charcreate"

\* C19 as stated: after Abort the persisted current_node is "end", and
\* re-invoking charcreate resumes at the end node.
C19_AbortPointsAtEnd ==
    [][/\ IsAbort => sheet'["current_node"] = "end"
       /\ IsReentryAfterAbort => ResumeNode(sheet) = "end"]_vars

\* C19, amended: Abort ends the session and leaves the sheet, current_node
\* included, as it was; current_node names a node that records itself,
\* never "end", and re-invoking charcreate opens the wizard at that node.
C19_AbortKeepsResumePoint ==
    [][/\ IsAbort =>
            /\ menuNode' = None
            /\ sheet' = sheet
            /\ sheet["current_node"] \in WizardNodes \ {"end"}
       /\ IsReentryAfterAbort =>
            /\ menuNode' = sheet["current_node"]
            /\ menuNode' # "end"]_vars

\* The player aborted at select_growth, which records nothing, and
\* charcreate reopened the wizard at background_skills.
C19_Witness ==
    /\ lastWiz.op = "charcreate"
    /\ lastWiz.ended = "abort"
    /\ lastWiz.from = "select_growth"
    /\ menuNode = "background_skills"

\* A step in which the player chooses Select at background_select.
IsSelect == menuNode = "background_select" /\ lastWiz'.op = "select"

\* The names in a list of skills.
SkillsNamed(names) == {names[i] : i \in 1..Len(names)}

\* The level a skill has in a sheet, 0 when the sheet does not hold it.
SheetLevel(sh, skill) ==
    IF skill \in DOMAIN SheetSkills(sh) THEN SheetSkills(sh)[skill] ELSE 0

\* C20: Select at background_select records the background in the sheet,
\* raises each of its free skills by exactly 1, changes no other skill and
\* no sheet field besides background, skills and the position the move to
\* background_skills records, and shows background_skills.
C20_SelectGrantsFreeSkills ==
    [][IsSelect =>
          LET bg == menuKwargs.selected_background
              free == SkillsNamed(bg.free_skill)
          IN  /\ sheet'["background"] = bg.name
              /\ DOMAIN sheet'["skills"] = DOMAIN SheetSkills(sheet) \cup free
              /\ \A skill \in DOMAIN sheet'["skills"] :
                    sheet'["skills"][skill] =
                        SheetLevel(sheet, skill)
                            + (IF skill \in free THEN 1 ELSE 0)
              /\ DOMAIN sheet' = DOMAIN sheet \cup {"background", "skills"}
              /\ \A key \in DOMAIN sheet \ {"background", "skills",
                                            "current_node"} :
                    sheet'[key] = sheet[key]
              /\ sheet'["current_node"] = "background_skills"
              /\ menuNode' = "background_skills"]_vars

\* Barbarian was selected on a fresh sheet: Survive is at level 1 and the
\* wizard shows background_skills.
C20_Witness ==
    /\ lastWiz.op = "select"
    /\ menuNode = "background_skills"
    /\ sheet["background"] = "Barbarian"
    /\ DOMAIN sheet["skills"] = {"Survive"}
    /\ sheet["skills"]["Survive"] = 1

\* A step in which free text typed at name_character is handled.
IsNaming == menuNode = "name_character" /\ lastWiz'.op = "apply"

\* The inputs that are empty or only whitespace, and what is left of the
\* other one once the surrounding whitespace is removed.
BlankInputs == {"", "   "}

StrippedZed == "Zed"

\* C21: at name_character an empty or whitespace-only input shows
\* name_character again and leaves the sheet's name as it was; any other
\* input stores the stripped text as the name and shows review.
C21_BlankNameRejected ==
    [][IsNaming =>
          IF lastWiz'.input \in BlankInputs
          THEN /\ menuNode' = "name_character"
               /\ sheet' = sheet
          ELSE /\ menuNode' = "review"
               /\ sheet'["name"] = StrippedZed]_vars

\* A named character went back from review and typed a blank name: the
\* node is shown again and the name is kept.
C21_Witness ==
    /\ lastWiz.op = "apply"
    /\ lastWiz.input = "   "
    /\ menuNode = "name_character"
    /\ "name" \in DOMAIN sheet
    /\ sheet["name"] = "Zed"

\* C32: the review node's summary shows as Name the name stored in the
\* sheet ("Unnamed" when none is stored), whatever skills, foci and equipment
\* the sheet holds.
C32_ReviewShowsName ==
    menuNode = "review" =>
        /\ review_name(sheet)[1] = "str"
        /\ review_name(sheet)[2] =
              (IF "name" \in DOMAIN sheet THEN sheet["name"] ELSE "Unnamed")

\* A step in which Quick is chosen at background_skills.
IsQuick ==
    /\ menuNode = "background_skills"
    /\ lastWiz'.op = "apply"
    /\ lastWiz'.from = "background_skills"

\* The quick skills of a background with "Any-Combat" resolved to "Shoot";
\* for Barbarian: Survive, Notice and Shoot.
ClaimedQuickSkills(bg) ==
    IF bg = "Barbarian" THEN {"Survive", "Notice", "Shoot"}
    ELSE SkillsNamed(quick_names(backgrounds[bg].quick_skills))

\* C33: choosing Quick at background_skills adds exactly 1 to each of the
\* background's quick skills, "Any-Combat" taken as "Shoot", creates or
\* changes no other skill key and goes on to class_select; for Barbarian it
\* raises exactly Survive, Notice and Shoot by 1 each.
C33_QuickRaisesQuickSkills ==
    [][IsQuick =>
          LET bg == sheet["background"]
              listed == SkillsNamed(quick_names(backgrounds[bg].quick_skills))
          IN  /\ menuNode' = "class_select"
              /\ listed = ClaimedQuickSkills(bg)
              /\ DOMAIN sheet'["skills"] =
                    DOMAIN SheetSkills(sheet) \cup ClaimedQuickSkills(bg)
              /\ \A skill \in DOMAIN sheet'["skills"] :
                    sheet'["skills"][skill] =
                        SheetLevel(sheet, skill)
                        + (IF skill \in ClaimedQuickSkills(bg) THEN 1 ELSE 0)
      ]_vars

\* The sheet holds all a finished character needs.
SheetComplete(sh) ==
    /\ {"stats", "background", "class", "foci", "equipment", "name"}
          \subseteq DOMAIN sh
    /\ sh["background"] \in DOMAIN backgrounds
    /\ Len(sh["foci"]) >= 1
    /\ sh["name"] \notin BlankInputs

\* The confirm node has just run: it alone clears current_node.
AtConfirm ==
    "current_node" \in DOMAIN sheet /\ sheet["current_node"] = None

\* C37: whenever the wizard reaches confirm, the sheet holds rolled stats, a
\* background, a class, at least one focus, the equipment package and a
\* name that is not blank, whatever choices, Back steps, aborts and
\* charcreate re-entries led there from an empty sheet.
C37_ConfirmedSheetComplete == AtConfirm => SheetComplete(sheet)

\* A Clergy Psychic called Zed was confirmed at review and the session
\* ended.
C37_Witness ==
    /\ AtConfirm
    /\ lastWiz.op = "choose"
    /\ lastWiz.from = "review"
    /\ menuNode = None
    /\ sheet["name"] = "Zed"
    /\ sheet["background"] = "Clergy"
    /\ sheet["class"] = "Psychic"

\* A step in which Select is chosen by a sheet that has a background already.
IsReselect == IsSelect /\ "background" \in DOMAIN sheet

\* C38: a background's free-skill grant is applied once per character:
\* selecting a background again after going Back from background_skills
\* raises no free skill a second time (the same background leaves the skills
\* as they are), and the skills then hold the grant of the background
\* selected last only (the grant of the one before is taken back).
C38_FreeSkillOncePerCharacter ==
    [][IsReselect =>
          LET was == SkillsNamed(backgrounds[sheet["background"]].free_skill)
              is == SkillsNamed(menuKwargs.selected_background.free_skill)
          IN  \A skill \in DOMAIN SheetSkills(sheet) \cup was \cup is :
                 SheetLevel(sheet', skill) =
                     SheetLevel(sheet, skill)
                     + (IF skill \in is \ was THEN 1 ELSE 0)
                     - (IF skill \in was \ is THEN 1 ELSE 0)
      ]_vars

(***************************************************************************)
(* Properties of the space room                                            *)
(***************************************************************************)

\* A step in which the environmental effect is applied once.
IsEnvironmentTick == nTicks' = nTicks + 1

ClaimedModifier(score) ==
    CASE score = 3 -> <<0 - 2>>
      [] score \in 4..7 -> <<0 - 1>>
      [] score \in 8..13 -> <<0>>
      [] score \in 14..17 -> <<1>>
      [] score = 18 -> <<2>>
      [] OTHER -> << >>

\* C23: for every integer score get_ability_modifier(score) and
\* lookup(score, attribute_modifier_tbl) agree: -2 at 3, -1 at 4..7, 0 at
\* 8..13, +1 at 14..17, +2 at 18, and no value outside 3..18.
C23_ModifiersAgree ==
    lastUtil.op = "ability_modifier" =>
        /\ lastUtil.result.get_ability_modifier = ClaimedModifier(lastUtil.input)
        /\ lastUtil.result.lookup = ClaimedModifier(lastUtil.input)

\* The characters of s from position from on are digits, at least one.
AllDigits(s, from) ==
    from <= Len(s) /\ \A i \in from..Len(s) : s[i] \in Digits

\* The whole string is <count>d<sides>, optionally followed by a signed
\* integer modifier.
WholeForm(s) ==
    \E d \in 2..Len(s) :
        /\ s[d] = "d"
        /\ \A i \in 1..(d - 1) : s[i] \in Digits
        /\ \/ AllDigits(s, d + 1)
           \/ \E sign \in (d + 2)..Len(s) :
                 /\ s[sign] \in {"+", "-"}
                 /\ \A i \in (d + 1)..(sign - 1) : s[i] \in Digits
                 /\ AllDigits(s, sign + 1)

\* C24: roll_dice accepts a string iff the whole string has the form
\* <count>d<sides> with an optional signed modifier; for every other string
\* it fails with an invalid-input error and produces no DiceResult.
C24_WholeStringOrError ==
    lastUtil.op = "roll_dice" =>
        (lastUtil.result.ok <=> WholeForm(lastUtil.input))

\* C25: calculate_saving_throws returns, for every class name and stats,
\* the class's base numbers (the Expert row for an unrecognized class)
\* less the modifiers of Strength, Dexterity, Wisdom and Intelligence for
\* Physical, Evasion, Mental and Tech, and Luck unreduced.
C25_SavingThrowsReturned ==
    lastUtil.op = "calculate_saving_throws" =>
        LET char_class == lastUtil.input.char_class
            base == IF char_class \in {"Warrior", "Expert", "Psychic",
                                       "Adventurer"}
                    THEN class_saves[char_class] ELSE class_saves["Expert"]
            mod(stat) == get_ability_modifier(lastUtil.input.stats[stat])
        IN  lastUtil.result =
                << [Physical |-> base.Physical - mod("STR"),
                    Evasion |-> base.Evasion - mod("DEX"),
                    Mental |-> base.Mental - mod("WIS"),
                    Tech |-> base.Tech - mod("INT"),
                    Luck |-> base.Luck] >>

(***************************************************************************)
(* Properties of the lighting command                                      *)
(***************************************************************************)

\* A step in which a lighting command is typed.
IsCmd == nCmds' = nCmds + 1

\* The command line is lighting set, type, modifier or remove with the
\* arguments that subcommand takes.
IsMutatingCmd(args) ==
    \/ Len(args) >= 2 /\ args[1] \in {"set", "type", "remove"}
    \/ Len(args) >= 3 /\ args[1] = "modifier"

\* The command line carries an argument C27 is about: a non-numeric level,
\* change or duration, or a lighting type that is none of the four.
IsInvalidCmd(args) ==
    \/ Len(args) >= 2 /\ args[1] = "set" /\ args[2] = "x"
    \/ Len(args) >= 3 /\ args[1] = "modifier" /\ args[3] = "x"
    \/ Len(args) >= 4 /\ args[1] = "modifier" /\ args[4] = "x"
    \/ Len(args) >= 2 /\ args[1] = "type" /\ args[2] \notin LightingTypes

\* The room's lighting state, in the handler and as persisted.
LightingUnchanged ==
    UNCHANGED <<base_light_level, light_modifiers, lighting_type, db_lighting>>

\* C26: for a caller without builder permission lighting set, type,
\* modifier and remove, with any arguments, leave the room's base level,
\* lighting type and modifiers unchanged and the caller is told that
\* permission is denied.
C26_NonBuilderDenied ==
    [][(IsCmd /\ ~lastCmd'.is_builder /\ IsMutatingCmd(lastCmd'.args)) =>
          /\ LightingUnchanged
          /\ lastCmd'.msgs = <<DeniedText>>]_vars

\* C27: for a builder a non-numeric level, change or duration and an
\* invalid lighting type each end with a message to the caller, raise no
\* error out of the command and leave the lighting state unchanged.
C27_InvalidInputReported ==
    [][(IsCmd /\ lastCmd'.is_builder /\ IsInvalidCmd(lastCmd'.args)) =>
          /\ LightingUnchanged
          /\ lastCmd'.msgs # << >>
          /\ ~lastCmd'.raised]_vars

(***************************************************************************)
(* Properties of the scenario test runner                                  *)
(***************************************************************************)

\* C28: whenever run_full_scenario returns, every object the runner
\* created has been deleted and its tracked object map is empty: whether
\* the steps passed, failed or raised, and when the setup failed partway.
C28_RunnerCleansUp ==
    (lastRun.op = "run_full_scenario" /\ lastRun.returned \in {"True", "False"})
        => (alive = {} /\ test_objects = {})

\* C40: the report generated at the end of a full-scenario run lists
\* exactly the ten steps of that run, one record per step in step order,
\* whether each step passed, failed or raised, and also when the same runner
\* was used for earlier runs.
C40_ReportListsThisRun ==
    lastRun.report # << >> =>
        LET lines == lastRun.report[1].lines
        IN  /\ Len(lines) = NumSteps
            /\ \A i \in 1..Len(lines) : lines[i].step = i

(***************************************************************************)
(* Properties of the airlock                                               *)
(***************************************************************************)

\* A step that is a cycle_airlock() call.
IsCycleCall == nCalls' = nCalls + 1

\* A step in which the _eject_contents callback ran: it is the only step
\* that takes a callback off the schedule without adding one.
IsEjection == Len(timers') < Len(timers)

\* C1: a cycle_airlock() call made while is_cycling is true returns failure
\* with "Airlock is already cycling!", schedules nothing, and leaves
\* is_cycling, the lighting state and the location of everything unchanged.
C1_RefusedWhileCycling ==
    [][(IsCycleCall /\ is_cycling) =>
          /\ lastCall'.op = "cycle_airlock"
          /\ lastCall'.ok = FALSE
          /\ lastCall'.msg = "Airlock is already cycling!"
          /\ lastCall'.msgs = <<>>
          /\ timers' = timers
          /\ is_cycling' = is_cycling
          /\ light_modifiers' = light_modifiers
          /\ db_lighting' = db_lighting
          /\ location' = location
      ]_vars

\* C1 witness: a call has just been refused while a cycle is in progress
\* and its ejection is still scheduled.
C1_Witness ==
    /\ lastCall.op = "cycle_airlock"
    /\ lastCall.ok = FALSE
    /\ is_cycling
    /\ Len(timers) > 0

\* The exits of the airlock that lead to a room of lighting type "space".
SpaceExits == {e \in Exits : room_lighting_type(exitDest[e]) = "space"}

C3_AbortsWithoutSpaceExit ==
    [][(IsEjection /\ SpaceExits = {}) =>
          /\ location' = location
          /\ lastCall'.op = "eject_contents"
          /\ lastCall'.msgs = <<"Error: No space exit found!">>
          /\ lastCall'.moved = {}
          /\ is_cycling' = FALSE
      ]_vars

\* C3 witness: an ejection has just aborted with the NPC still inside.
C3_Witness ==
    /\ lastCall.op = "eject_contents"
    /\ lastCall.space_exit = None
    /\ lastCall.msgs = <<"Error: No space exit found!">>
    /\ location["thug"] = "airlock"
    /\ ~is_cycling

\* C4 (as claimed): once an ejection has aborted for want of a space exit,
\* is_cycling is false and the cycling_lights modifier is gone.
C4_AbortUndoesCycle ==
    (lastCall.op = "eject_contents" /\ lastCall.space_exit = None) =>
        /\ ~is_cycling
        /\ "cycling_lights" \notin DOMAIN light_modifiers
        /\ "cycling_lights" \notin DOMAIN db_lighting.light_modifiers

\* C5 (as claimed): while the warning of an accepted call is running
\* is_cycling is false and nothing is ejected; a call accepted with no player
\* inside returns with is_cycling true; the delayed cycle starts when the
\* warning delay has passed, and contents are ejected only when cycle_time
\* has passed since the cycle started.
C5_FixedOrder ==
    /\ \A i \in 1..Len(timers) :
          timers[i].fn = "execute_cycle" =>
              /\ ~is_cycling
              /\ lastCall.op # "eject_contents"
    /\ (lastCall.op = "cycle_airlock" /\ lastCall.ok /\ lastCall.msgs = CyclingMsgs) =>
          is_cycling
    /\ lastCall.op = "execute_cycle" => now >= lastCall.since + WarningDelay
    /\ lastCall.op = "eject_contents" => now >= lastCall.since + cycle_time

(***************************************************************************)
(* Further properties of the dispatcher and the airlock                    *)
(***************************************************************************)

\* C36: during one dispatch each entity's hook for a given phase is invoked
\* at most once, also when one entity fills two roles (source and target, or
\* the source's location and target): a dispatched hack event reaches the
\* target's handle_event once, for one hack resolution and one history line.
C36_HookOncePerEntity ==
    \A i, j \in 1..Len(calls) :
        (calls[i][1] = calls[j][1] /\ calls[i][3] = calls[j][3]) => i = j

\* C34: at most one airlock cycle is pending or in progress at any time:
\* once a cycle_airlock() call has been accepted, every further call made
\* before that cycle's ejection has finished is refused, also during the
\* 5-second warning delay, so there are never two scheduled cycles or two
\* ejections under way.
C34_OneCycleAtATime ==
    [][ /\ Len(timers') <= 1
        /\ (IsCycleCall /\ (is_cycling \/ timers # << >>)) =>
              /\ ~lastCall'.ok
              /\ timers' = timers
      ]_vars

\* The airlock has a cycle pending or in progress.
Busy == is_cycling \/ timers # << >>

\* C35: provided the host fires the scheduled callbacks, every accepted
\* cycle_airlock() call is eventually followed by a state in which
\* is_cycling is false and nothing is pending: the airlock never stays in
\* Cycling forever, with or without a space exit, with or without a player
\* present.
C35_CycleEnds == Busy ~> (~is_cycling /\ timers = << >>)

\* The one cycle asked for has ended in an aborted ejection (there was no
\* space exit) and the airlock is idle again.
C35_Witness ==
    /\ lastCall.op = "eject_contents"
    /\ lastCall.space_exit = None
    /\ now >= WarningDelay + cycle_time
    /\ nCalls = 1
    /\ ~is_cycling
    /\ timers = << >>

====
